---- MODULE Spec2Model ----
(***************************************************************************)
(* The commit log of ttaatoo/proglog: store, index, segment and Log.       *)
(* Files are sequences of bytes (0..255); the directory of the log is a    *)
(* function from file names <<baseOffset, extension>> to file contents.    *)
(***************************************************************************)
EXTENDS Integers, Sequences, FiniteSets, TLC

(* ---------------------------- bounds ----------------------------------- *)

\* Number of Log.Append calls explored in one behaviour.
MaxAppends == 2
\* Number of NewLog calls on the directory after the first one.
MaxReopens == 1

\* Payloads (Record.Value) the callers append.
Payloads == {<<>>, <<7>>}
\* Record.Offset values the callers put in the record before Append.
CallerOffsets == {0, 9}
\* Config.Segment values the log is opened with (0 selects the default).
StoreCaps == {0, 10}
IndexCaps == {12, 18, 24}
InitialOffsets == {0, 2}

(* ------------------------ program constants ---------------------------- *)

offWidth == 4
posWidth == 8
entWidth == offWidth + posWidth
lenWidth == 8
DefaultMaxBytes == 1024

(* --------------------------- encodings --------------------------------- *)

\* enc.PutUint32 / enc.PutUint64 / binary.Write(enc, uint64): v as w
\* big-endian bytes.
RECURSIVE PutBE(_, _)
PutBE(v, w) == IF w = 0 THEN <<>> ELSE Append(PutBE(v \div 256, w - 1), v % 256)

\* enc.Uint32 / enc.Uint64: the value of big-endian bytes b.
RECURSIVE BE(_)
BE(b) == IF b = <<>> THEN 0 ELSE BE(SubSeq(b, 1, Len(b) - 1)) * 256 + b[Len(b)]

\* n zero bytes: the space a growing truncate adds to a file.
Zeros(n) == [i \in 1..n |-> 0]

\* os.Truncate(name, n): the file cut or zero-extended to n bytes.
Resize(f, n) == IF Len(f) >= n THEN SubSeq(f, 1, n) ELSE f \o Zeros(n - Len(f))

\* proto.Marshal(record): field 1 (bytes value) and field 2 (uint64 offset)
\* of api.Record in the proto3 wire format, zero-valued fields omitted.
\* Lengths and offsets stay below 128, so every varint is one byte.
Marshal(record) ==
    (IF Len(record.Value) > 0
        THEN <<10, Len(record.Value)>> \o record.Value ELSE <<>>)
    \o (IF record.Offset > 0 THEN <<16, record.Offset>> ELSE <<>>)

\* proto.Unmarshal(p, record): the fields found in p, from byte i on.
RECURSIVE UnmarshalFrom(_, _, _)
UnmarshalFrom(p, i, record) ==
    IF i > Len(p) THEN [record |-> record, err |-> "nil"]
    ELSE IF p[i] = 10 /\ i + 1 <= Len(p) /\ i + 1 + p[i + 1] <= Len(p)
        THEN UnmarshalFrom(p, i + 2 + p[i + 1],
                 [record EXCEPT !.Value = SubSeq(p, i + 2, i + 1 + p[i + 1])])
    ELSE IF p[i] = 16 /\ i + 1 <= Len(p)
        THEN UnmarshalFrom(p, i + 2, [record EXCEPT !.Offset = p[i + 1]])
    ELSE [record |-> record, err |-> "decode"]

Unmarshal(p) == UnmarshalFrom(p, 1, [Value |-> <<>>, Offset |-> 0])

(* ------------------------------ store ---------------------------------- *)

StoreName(baseOffset) == <<baseOffset, "store">>
IndexName(baseOffset) == <<baseOffset, "index">>

\* The entry that marks a directory that has been removed: what is left in
\* it then are the unlinked files that open descriptors still hold.
Gone == <<0, "ENOENT">>
Exists(d) == Gone \notin DOMAIN d

\* os.OpenFile(name, O_RDWR|O_CREATE...): the directory with the file
\* created empty when it does not exist. The callers check Exists(d) first.
OpenFile(d, name) == IF name \in DOMAIN d THEN d ELSE (name :> <<>>) @@ d

\* os.Remove(name)
RemoveFile(d, name) == [n \in DOMAIN d \ {name} |-> d[n]]

\* newStore: size is the length of the file, the write buffer is empty. The
\* model keeps with the store whether its descriptor is open (file) and the
\* error a failed flush leaves in the bufio.Writer (err), which every later
\* write and flush returns.
newStore(d, name) ==
    [name |-> name, size |-> Len(d[name]), buf |-> <<>>, file |-> "open",
     err |-> "nil"]

\* store.Append: length prefix and payload go to the write buffer; nothing
\* is written to the file as long as the buffer has room.
storeAppend(s, p) ==
    IF s.err # "nil" THEN [store |-> s, n |-> 0, pos |-> 0, err |-> s.err]
    ELSE [store |-> [s EXCEPT !.buf = s.buf \o PutBE(Len(p), lenWidth) \o p,
                              !.size = s.size + Len(p) + lenWidth],
          n     |-> Len(p) + lenWidth,
          pos   |-> s.size,
          err   |-> "nil"]

\* s.buf.Flush(): the buffered bytes are appended to the file. With an empty
\* buffer nothing is written; a write to a closed descriptor fails and the
\* error stays in the writer.
Flush(s, d) ==
    IF s.err # "nil" THEN [store |-> s, dir |-> d, err |-> s.err]
    ELSE IF s.buf = <<>> THEN [store |-> s, dir |-> d, err |-> "nil"]
    ELSE IF s.file = "closed"
        THEN [store |-> [s EXCEPT !.err = "ErrClosed"], dir |-> d,
              err |-> "ErrClosed"]
    ELSE [store |-> [s EXCEPT !.buf = <<>>],
          dir   |-> [d EXCEPT ![s.name] = d[s.name] \o s.buf],
          err   |-> "nil"]

\* store.Read: flush, read the length at pos, read that many bytes after it.
storeRead(s, d, pos) ==
    LET Result(fl, b, err) ==
            [store |-> fl.store, dir |-> fl.dir, b |-> b, err |-> err]
        ReadBytes(fl, n) ==
            IF pos + lenWidth + n > Len(fl.dir[s.name])
                THEN Result(fl, <<>>, "EOF")
            ELSE Result(fl, SubSeq(fl.dir[s.name], pos + lenWidth + 1,
                                   pos + lenWidth + n), "nil")
        ReadLength(fl) ==
            IF fl.err # "nil" THEN Result(fl, <<>>, fl.err)
            ELSE IF s.file = "closed" THEN Result(fl, <<>>, "ErrClosed")
            ELSE IF pos + lenWidth > Len(fl.dir[s.name])
                THEN Result(fl, <<>>, "EOF")
            ELSE ReadBytes(fl, BE(SubSeq(fl.dir[s.name], pos + 1, pos + lenWidth)))
    IN  ReadLength(Flush(s, d))

\* store.ReadAt from position 0 to the end of the file, as a reader that
\* reads until EOF uses it: flush, then the bytes of the file.
storeReadAll(s, d) ==
    LET Result(fl) ==
            IF fl.err # "nil"
                THEN [store |-> fl.store, dir |-> fl.dir, b |-> <<>>,
                      err |-> fl.err]
            ELSE IF s.file = "closed"
                THEN [store |-> fl.store, dir |-> fl.dir, b |-> <<>>,
                      err |-> "ErrClosed"]
            ELSE [store |-> fl.store, dir |-> fl.dir, b |-> fl.dir[s.name],
                  err |-> "nil"]
    IN  Result(Flush(s, d))

\* store.Close: flush, then close the descriptor; closing a closed
\* descriptor is an error.
storeClose(s, d) ==
    LET Closed(fl) ==
            IF fl.err # "nil" THEN fl
            ELSE IF s.file = "closed"
                THEN [store |-> fl.store, dir |-> fl.dir, err |-> "ErrClosed"]
            ELSE [store |-> [fl.store EXCEPT !.file = "closed"],
                  dir |-> fl.dir, err |-> "nil"]
    IN  Closed(Flush(s, d))

(* ------------------------------ index ---------------------------------- *)

\* newIndex: size is the length of the file as found, the file is then
\* truncated to MaxIndexBytes and mapped. The model keeps with the index
\* whether its descriptor is open (file) and the length of the file behind
\* the mapping (fileSize).
newIndex(d, name, c) ==
    LET Map(grown) ==
            [index |-> [name |-> name, size |-> Len(d[name]), mmap |-> grown,
                        file |-> "open", fileSize |-> Len(grown)],
             dir   |-> [d EXCEPT ![name] = grown]]
    IN  Map(Resize(d[name], c.MaxIndexBytes))

\* index.Read: the entry at offset, or the last entry when offset is -1.
indexRead(i, offset) ==
    LET out == IF offset = -1 THEN (i.size \div entWidth) - 1 ELSE offset
        pos == out * entWidth
    IN  IF i.size = 0 THEN [out |-> 0, pos |-> 0, err |-> "EOF"]
        ELSE IF i.size < pos + entWidth THEN [out |-> 0, pos |-> 0, err |-> "EOF"]
        ELSE IF Len(i.mmap) < pos + entWidth
            THEN [out |-> 0, pos |-> 0, err |-> "panic"]
        ELSE [out |-> BE(SubSeq(i.mmap, pos + 1, pos + offWidth)),
              pos |-> BE(SubSeq(i.mmap, pos + offWidth + 1, pos + entWidth)),
              err |-> "nil"]

\* index.Write that does not advance size.
indexWriteKeepSize(i, offset, pos) ==
    IF Len(i.mmap) < i.size + entWidth
        THEN [index |-> i, err |-> "EOF"]
    ELSE IF i.fileSize = 0 THEN [index |-> i, err |-> "SIGBUS"]
    ELSE [index |-> [i EXCEPT
              !.mmap = SubSeq(i.mmap, 1, i.size)
                       \o PutBE(offset, offWidth) \o PutBE(pos, posWidth)
                       \o SubSeq(i.mmap, i.size + entWidth + 1, Len(i.mmap))],
          err |-> "nil"]

\* index.Write: the entry goes to the mapping at size, size advances. A
\* mapping is never longer than a page, so a store into it faults (SIGBUS,
\* which ends the process) exactly when the file behind it is empty.
indexWrite(i, offset, pos) ==
    IF Len(i.mmap) < i.size + entWidth
        THEN [index |-> i, err |-> "EOF"]
    ELSE IF i.fileSize = 0 THEN [index |-> i, err |-> "SIGBUS"]
    ELSE [index |-> [i EXCEPT
              !.mmap = SubSeq(i.mmap, 1, i.size)
                       \o PutBE(offset, offWidth) \o PutBE(pos, posWidth)
                       \o SubSeq(i.mmap, i.size + entWidth + 1, Len(i.mmap)),
              !.size = i.size + entWidth],
          err |-> "nil"]

\* index.Close: the mapping is synced to the file, the file is truncated to
\* size and closed; the mapping stays. On a closed descriptor file.Sync
\* fails.
indexClose(i, d) ==
    IF i.file = "closed" THEN [index |-> i, dir |-> d, err |-> "ErrClosed"]
    ELSE [index |-> [i EXCEPT !.file = "closed", !.fileSize = i.size],
          dir   |-> [d EXCEPT ![i.name] = Resize(i.mmap, i.size)],
          err   |-> "nil"]

(* ----------------------------- segment --------------------------------- *)

\* newSegment with the next offset taken to be the last relative offset.
newSegmentLastOffset(d, baseOffset, c) ==
    LET Recover(st, ni, last) ==
            [segment |-> [baseOffset |-> baseOffset,
                          nextOffset |-> IF last.err # "nil" THEN baseOffset
                                         ELSE baseOffset + last.out,
                          store      |-> st,
                          index      |-> ni.index],
             dir     |-> ni.dir,
             err     |-> IF last.err = "panic" THEN "panic" ELSE "nil"]
        WithIndex(st, ni) == Recover(st, ni, indexRead(ni.index, -1))
        WithStore(d1) ==
            WithIndex(newStore(d1, StoreName(baseOffset)),
                      newIndex(OpenFile(d1, IndexName(baseOffset)),
                               IndexName(baseOffset), c))
    IN  IF ~Exists(d) THEN [dir |-> d, err |-> "ENOENT"]
        ELSE WithStore(OpenFile(d, StoreName(baseOffset)))

\* newSegment: opens or creates the store file and builds the store, opens
\* or creates the index file and builds the index, and recovers nextOffset
\* from the last index entry. Without the directory os.OpenFile fails.
newSegment(d, baseOffset, c) ==
    LET Recover(st, ni, last) ==
            [segment |-> [baseOffset |-> baseOffset,
                          nextOffset |-> IF last.err # "nil" THEN baseOffset
                                         ELSE baseOffset + last.out + 1,
                          store      |-> st,
                          index      |-> ni.index],
             dir     |-> ni.dir,
             err     |-> IF last.err = "panic" THEN "panic" ELSE "nil"]
        WithIndex(st, ni) == Recover(st, ni, indexRead(ni.index, -1))
        WithStore(d1) ==
            WithIndex(newStore(d1, StoreName(baseOffset)),
                      newIndex(OpenFile(d1, IndexName(baseOffset)),
                               IndexName(baseOffset), c))
    IN  IF ~Exists(d) THEN [dir |-> d, err |-> "ENOENT"]
        ELSE WithStore(OpenFile(d, StoreName(baseOffset)))

\* segment.Append that does not advance nextOffset.
segmentAppendNoAdvance(s, record) ==
    LET Indexed(sa, iw) ==
            IF iw.err # "nil"
                THEN [segment |-> [s EXCEPT !.store = sa.store],
                      offset |-> 0, err |-> iw.err]
            ELSE [segment |-> [s EXCEPT !.store = sa.store,
                                        !.index = iw.index],
                  offset |-> s.nextOffset, err |-> "nil"]
        Stored(sa) ==
            IF sa.err # "nil"
                THEN [segment |-> s, offset |-> 0, err |-> sa.err]
            ELSE Indexed(sa, indexWrite(s.index, s.nextOffset - s.baseOffset,
                                        sa.pos))
    IN  Stored(storeAppend(s.store,
                           Marshal([record EXCEPT !.Offset = s.nextOffset])))

\* segment.Append: the record gets nextOffset, is marshalled and appended to
\* the store, its position is written to the index, nextOffset advances.
segmentAppend(s, record) ==
    LET Indexed(sa, iw) ==
            IF iw.err # "nil"
                THEN [segment |-> [s EXCEPT !.store = sa.store],
                      offset |-> 0, err |-> iw.err]
            ELSE [segment |-> [s EXCEPT !.store = sa.store,
                                        !.index = iw.index,
                                        !.nextOffset = s.nextOffset + 1],
                  offset |-> s.nextOffset, err |-> "nil"]
        Stored(sa) ==
            IF sa.err # "nil"
                THEN [segment |-> s, offset |-> 0, err |-> sa.err]
            ELSE Indexed(sa, indexWrite(s.index, s.nextOffset - s.baseOffset,
                                        sa.pos))
    IN  Stored(storeAppend(s.store,
                           Marshal([record EXCEPT !.Offset = s.nextOffset])))

\* segment.Read that looks the absolute offset up in the index.
segmentReadAbsolute(s, d, off) ==
    LET Decoded(sr, um) ==
            [segment |-> [s EXCEPT !.store = sr.store], dir |-> sr.dir,
             record |-> <<um.record>>, err |-> um.err]
        Fetched(sr) ==
            IF sr.err # "nil"
                THEN [segment |-> [s EXCEPT !.store = sr.store],
                      dir |-> sr.dir, record |-> <<>>, err |-> sr.err]
            ELSE Decoded(sr, Unmarshal(sr.b))
        Located(ir) ==
            IF ir.err # "nil"
                THEN [segment |-> s, dir |-> d, record |-> <<>>, err |-> ir.err]
            ELSE Fetched(storeRead(s.store, d, ir.pos))
    IN  Located(indexRead(s.index, off))

\* segment.Read: index entry off - baseOffset gives the position, the store
\* gives the bytes, which are unmarshalled.
segmentRead(s, d, off) ==
    LET Decoded(sr, um) ==
            [segment |-> [s EXCEPT !.store = sr.store], dir |-> sr.dir,
             record |-> <<um.record>>, err |-> um.err]
        Fetched(sr) ==
            IF sr.err # "nil"
                THEN [segment |-> [s EXCEPT !.store = sr.store],
                      dir |-> sr.dir, record |-> <<>>, err |-> sr.err]
            ELSE Decoded(sr, Unmarshal(sr.b))
        Located(ir) ==
            IF ir.err # "nil"
                THEN [segment |-> s, dir |-> d, record |-> <<>>, err |-> ir.err]
            ELSE Fetched(storeRead(s.store, d, ir.pos))
    IN  Located(indexRead(s.index, off - s.baseOffset))

\* segment.IsMaxed that forgets the store.
IsMaxedIndexOnly(s, c) == s.index.size >= c.MaxIndexBytes

\* segment.IsMaxed
IsMaxed(s, c) ==
    s.store.size >= c.MaxStoreBytes \/ s.index.size >= c.MaxIndexBytes

\* segment.Close: index first, then store; the first error is returned.
segmentClose(s, d) ==
    LET StoreClosed(ic, sc) ==
            [segment |-> [s EXCEPT !.index = ic.index, !.store = sc.store],
             dir |-> sc.dir, err |-> sc.err]
        IndexClosed(ic) ==
            IF ic.err # "nil"
                THEN [segment |-> s, dir |-> d, err |-> ic.err]
            ELSE StoreClosed(ic, storeClose(s.store, ic.dir))
    IN  IndexClosed(indexClose(s.index, d))

\* segment.Remove: close, then unlink the index file and the store file;
\* the first error is returned.
segmentRemove(s, d) ==
    LET Unlink(cl) ==
            IF cl.err # "nil" THEN cl
            ELSE IF ~Exists(cl.dir) \/ s.index.name \notin DOMAIN cl.dir
                THEN [segment |-> cl.segment, dir |-> cl.dir, err |-> "ENOENT"]
            ELSE IF s.store.name \notin DOMAIN cl.dir
                THEN [segment |-> cl.segment,
                      dir |-> RemoveFile(cl.dir, s.index.name),
                      err |-> "ENOENT"]
            ELSE [segment |-> cl.segment,
                  dir     |-> RemoveFile(RemoveFile(cl.dir, s.index.name),
                                         s.store.name),
                  err     |-> "nil"]
    IN  Unlink(segmentClose(s, d))

(* ------------------------------- Log ----------------------------------- *)

VARIABLES
    config,         \* Log.Config, after NewLog substituted the defaults
    dir,            \* the files of Log.Dir: name -> bytes
    segments,       \* Log.segments
    activeSegment,  \* Log.activeSegment, as its position in Log.segments
    logState,       \* "open", "closed" (after Close) or "panicked"
    ret,            \* what the last call returned
    history,        \* the successful appends: <<[offset, value], ...>>
    calls,          \* number of Append calls made
    reopens,        \* number of NewLog calls after the first
    pc              \* where a Remove or Reset call in flight stands

logVars == <<config, dir, segments, activeSegment, logState, ret, history,
             calls, reopens, pc>>

\* discovery.Membership
VARIABLES
    events,         \* the events Serf has put on Config.EventCh, in order
    delivered,      \* how many of them eventHandler has received
    handlerPc,      \* eventHandler: "running" or "returned"
    handlerCalls    \* the calls made on Membership.handler, in order

membershipVars == <<events, delivered, handlerPc, handlerCalls>>

\* agent.Agent
VARIABLES
    shutdown,       \* Agent.shutdown
    shutdowns,      \* how often Agent.shutdowns has been closed
    shutdownLock,   \* the caller that holds Agent.shutdownLock, 0 for none
    callers,        \* every caller of Shutdown: its position and last result
    stepsRun,       \* the shutdown steps executed so far, in order
    shutdownCalls   \* number of Shutdown calls made

agentVars == <<shutdown, shutdowns, shutdownLock, callers, stepsRun,
               shutdownCalls>>

\* log.Replicator
VARIABLES
    servers,        \* Replicator.servers: name -> channel
    closed,         \* Replicator.closed
    closes,         \* how often each channel has been closed (0: r.close)
    goroutines,     \* the replicate() goroutines started, in order
    produced,       \* the Produce calls made on LocalServer, in order
    replRet         \* the last call on the replicator and what it found

replicatorVars == <<servers, closed, closes, goroutines, produced, replRet>>

\* An index used by itself
VARIABLES
    idx,            \* the index
    idxWritten,     \* the entries written to it by successful Write calls
    idxRet          \* the last call on it and what it returned

indexVars == <<idx, idxWritten, idxRet>>

\* server.grpcServer: one ConsumeStream call
VARIABLES
    stream          \* its request offset, position, and what it has sent

serverVars == <<stream>>

\* A store used by several goroutines
VARIABLES
    st,             \* the store: size and write buffer
    stDir,          \* the directory that holds its file
    storeMu,        \* store.mu: the goroutines holding it, and how
    threads         \* the goroutines: their call and position in it

storeVars == <<st, stDir, storeMu, threads>>

\* Servers that replicate from each other
VARIABLES
    logs,           \* every server's log: its records, in offset order
    peers,          \* every server's Replicator.servers: name -> channel
    replicas        \* the replicate() goroutines of all servers, in order

clusterVars == <<logs, peers, replicas>>

unitVars == <<indexVars, serverVars, storeVars, clusterVars>>

vars == <<logVars, unitVars, membershipVars, agentVars, replicatorVars>>

\* No Remove or Reset call is in flight.
Idle == [call |-> "none", next |-> "idle", alone |-> TRUE]

\* The components a specification leaves out stay as constructed.
NoLogRun ==
    /\ config = [MaxStoreBytes |-> DefaultMaxBytes,
                 MaxIndexBytes |-> DefaultMaxBytes, InitialOffset |-> 0]
    /\ dir = [n \in {} |-> <<>>]
    /\ segments = <<>>
    /\ activeSegment = 0
    /\ logState = "closed"
    /\ ret = [op |-> "none"]
    /\ history = <<>>
    /\ calls = 0
    /\ reopens = 0
    /\ pc = Idle

NoMembershipRun ==
    /\ events = <<>>
    /\ delivered = 0
    /\ handlerPc = "running"
    /\ handlerCalls = <<>>

NoAgentRun ==
    /\ shutdown = FALSE
    /\ shutdowns = 0
    /\ shutdownLock = 0
    /\ callers = <<>>
    /\ stepsRun = <<>>
    /\ shutdownCalls = 0

NoReplicatorRun ==
    /\ servers = [n \in {} |-> 0]
    /\ closed = FALSE
    /\ closes = <<>>
    /\ goroutines = <<>>
    /\ produced = <<>>
    /\ replRet = [op |-> "none"]

NoIndexRun ==
    /\ idx = [size |-> 0]
    /\ idxWritten = <<>>
    /\ idxRet = [op |-> "none"]

NoServerRun ==
    stream = [pc |-> "none", start |-> 0, offset |-> 0, sent |-> <<>>,
              res |-> <<>>, done |-> FALSE, waitedAt |-> -1, err |-> "nil"]

\* newStore on a new, empty file; nobody holds store.mu.
NoStoreRun ==
    /\ stDir = (StoreName(0) :> <<>>)
    /\ st = newStore(stDir, StoreName(0))
    /\ storeMu = [w |-> 0, r |-> {}]
    /\ threads = <<>>

\* The servers of a cluster: the model takes two.
ClusterNodes == {"1", "2"}

\* Empty logs, zero Replicators, no goroutine.
NoClusterRun ==
    /\ logs = [n \in ClusterNodes |-> <<>>]
    /\ peers = [n \in ClusterNodes |-> [m \in {} |-> 0]]
    /\ replicas = <<>>

NoUnitRun == NoIndexRun /\ NoServerRun /\ NoStoreRun /\ NoClusterRun

\* The variables other than those of the Log.
notLog == <<unitVars, membershipVars, agentVars, replicatorVars>>

\* NewLog: a zero MaxStoreBytes or MaxIndexBytes selects the default.
NewLogConfig(c) ==
    [MaxStoreBytes |-> IF c.MaxStoreBytes = 0 THEN DefaultMaxBytes
                       ELSE c.MaxStoreBytes,
     MaxIndexBytes |-> IF c.MaxIndexBytes = 0 THEN DefaultMaxBytes
                       ELSE c.MaxIndexBytes,
     InitialOffset |-> c.InitialOffset]

\* Log.newSegment: the new segment is appended and becomes active.
LogNewSegment(segs, d, offset, c) ==
    LET Install(ns) ==
            IF ns.err # "nil"
                THEN [segments |-> segs, dir |-> ns.dir, err |-> ns.err]
            ELSE [segments |-> Append(segs, ns.segment), dir |-> ns.dir,
                  err |-> "nil"]
    IN  Install(newSegment(d, offset, c))

\* strconv.ParseUint(offStr, 10, 0) with the error dropped, as setup calls
\* it: the value of a stem of digits, and 0 for any other stem. File names
\* are <<stem, extension>>; a negative stem stands for a name whose stem is
\* not an unsigned integer ("-1.txt").
ParseUint(stem) == IF stem < 0 THEN 0 ELSE stem

\* Log.setup, lines 192-202: one base offset per directory entry, sorted
\* ascending.
RECURSIVE SortedBaseOffsets(_)
SortedBaseOffsets(names) ==
    LET Least(m) == <<ParseUint(m[1])>> \o SortedBaseOffsets(names \ {m})
    IN  IF names = {} THEN <<>>
        ELSE Least(CHOOSE n \in names :
                       \A k \in names : ParseUint(n[1]) <= ParseUint(k[1]))

\* Log.setup, lines 204-210: a segment for every second base offset.
RECURSIVE setupLoop(_, _, _, _, _)
setupLoop(segs, d, baseOffsets, i, c) ==
    LET Step(ns) ==
            IF ns.err # "nil" THEN ns
            ELSE setupLoop(ns.segments, ns.dir, baseOffsets, i + 2, c)
    IN  IF i > Len(baseOffsets)
            THEN [segments |-> segs, dir |-> d, err |-> "nil"]
        ELSE Step(LogNewSegment(segs, d, baseOffsets[i], c))

\* Log.setup on a log whose segment list is segs (empty in NewLog): a
\* segment for the files found in the directory is appended to the list, a
\* first segment at InitialOffset is created when the list is still empty,
\* and the last segment becomes active. os.ReadDir fails without the
\* directory; every segment created before an error stays in the list and
\* is the active one.
setup(segs, active, d, c) ==
    LET Activate(all) ==
            [segments |-> all.segments,
             activeSegment |-> IF all.err = "nil" \/ Len(all.segments) > Len(segs)
                               THEN Len(all.segments) ELSE active,
             dir |-> all.dir, err |-> all.err]
        Bootstrap(found) ==
            IF found.err = "nil" /\ found.segments = <<>>
                THEN Activate(LogNewSegment(<<>>, found.dir, c.InitialOffset, c))
            ELSE Activate(found)
    IN  IF ~Exists(d)
            THEN [segments |-> segs, activeSegment |-> active, dir |-> d,
                  err |-> "ENOENT"]
        ELSE Bootstrap(setupLoop(segs, d, SortedBaseOffsets(DOMAIN d), 1, c))

\* Log.Append that rolls to a segment one offset too far.
LogAppendRollGap(segs, active, d, c, record) ==
    LET Rolled(sa, rolled) ==
            [segments |-> rolled.segments,
             activeSegment |-> IF rolled.err = "nil"
                               THEN Len(rolled.segments) ELSE active,
             dir |-> rolled.dir, off |-> sa.offset, err |-> rolled.err]
        Appended1(sa) ==
            IF sa.err # "nil"
                THEN [segments |-> [segs EXCEPT ![active] = sa.segment],
                      activeSegment |-> active, dir |-> d,
                      off |-> 0, err |-> sa.err]
            ELSE IF IsMaxed(sa.segment, c)
                THEN Rolled(sa, LogNewSegment(
                                    [segs EXCEPT ![active] = sa.segment],
                                    d, sa.offset + 2, c))
            ELSE [segments |-> [segs EXCEPT ![active] = sa.segment],
                  activeSegment |-> active, dir |-> d,
                  off |-> sa.offset, err |-> "nil"]
    IN  Appended1(segmentAppend(segs[active], record))

\* Log.Append: append to the active segment; when that segment is then
\* maxed, a new segment at off + 1 becomes active.
LogAppend(segs, active, d, c, record) ==
    LET Rolled(sa, rolled) ==
            [segments |-> rolled.segments,
             activeSegment |-> IF rolled.err = "nil"
                               THEN Len(rolled.segments) ELSE active,
             dir |-> rolled.dir, off |-> sa.offset, err |-> rolled.err]
        Appended1(sa) ==
            IF sa.err # "nil"
                THEN [segments |-> [segs EXCEPT ![active] = sa.segment],
                      activeSegment |-> active, dir |-> d,
                      off |-> 0, err |-> sa.err]
            ELSE IF IsMaxed(sa.segment, c)
                THEN Rolled(sa, LogNewSegment(
                                    [segs EXCEPT ![active] = sa.segment],
                                    d, sa.offset + 1, c))
            ELSE [segments |-> [segs EXCEPT ![active] = sa.segment],
                  activeSegment |-> active, dir |-> d,
                  off |-> sa.offset, err |-> "nil"]
    IN  Appended1(segmentAppend(segs[active], record))

\* The covering segment with the base offset itself left out.
CoveringStrict(segs, offset) ==
    LET First(hits) ==
            IF hits = {} THEN 0 ELSE CHOOSE k \in hits : \A j \in hits : k <= j
    IN  First({k \in 1..Len(segs) :
                  segs[k].baseOffset < offset /\ offset < segs[k].nextOffset})

\* Log.Read, lines 239-245: the first segment that covers offset, 0 for nil.
Covering(segs, offset) ==
    LET First(hits) ==
            IF hits = {} THEN 0 ELSE CHOOSE k \in hits : \A j \in hits : k <= j
    IN  First({k \in 1..Len(segs) :
                  segs[k].baseOffset <= offset /\ offset < segs[k].nextOffset})

\* Log.Read: offset-out-of-range when no segment covers offset, else the
\* record the covering segment reads.
LogRead(segs, d, offset) ==
    LET Got(k, sr) ==
            [segments |-> [segs EXCEPT ![k] = sr.segment], dir |-> sr.dir,
             record |-> sr.record, err |-> sr.err, errOffset |-> 0]
        Found(k) ==
            IF k = 0 \/ segs[k].nextOffset <= offset
                THEN [segments |-> segs, dir |-> d, record |-> <<>>,
                      err |-> "ErrOffsetOutOfRange", errOffset |-> offset]
            ELSE Got(k, segmentRead(segs[k], d, offset))
    IN  Found(Covering(segs, offset))

\* Log.Close: the segments are closed in order, up to the first error.
RECURSIVE LogClose(_, _, _)
LogClose(segs, d, k) ==
    LET Closed(sc) ==
            IF sc.err # "nil"
                THEN [segments |-> [segs EXCEPT ![k] = sc.segment],
                      dir |-> sc.dir, err |-> sc.err]
            ELSE LogClose([segs EXCEPT ![k] = sc.segment], sc.dir, k + 1)
    IN  IF k > Len(segs) THEN [segments |-> segs, dir |-> d, err |-> "nil"]
        ELSE Closed(segmentClose(segs[k], d))

\* The truncate loop that keeps a segment ending exactly at lowest.
RECURSIVE truncateLoopStrict(_, _, _, _, _)
truncateLoopStrict(segs, d, lowest, k, kept) ==
    LET Removed(sr) ==
            IF sr.err # "nil"
                THEN [kept |-> kept, dir |-> sr.dir, err |-> sr.err,
                      segments |-> [segs EXCEPT ![k] = sr.segment]]
            ELSE truncateLoopStrict([segs EXCEPT ![k] = sr.segment], sr.dir,
                                    lowest, k + 1, kept)
    IN  IF k > Len(segs)
            THEN [kept |-> kept, dir |-> d, err |-> "nil", segments |-> segs]
        ELSE IF segs[k].nextOffset < lowest
            THEN Removed(segmentRemove(segs[k], d))
        ELSE truncateLoopStrict(segs, d, lowest, k + 1, Append(kept, segs[k]))

\* Log.Truncate, lines 311-320: segments with nextOffset <= lowest are
\* removed, the others are kept in order; the loop ends at the first segment
\* that cannot be removed.
RECURSIVE truncateLoop(_, _, _, _, _)
truncateLoop(segs, d, lowest, k, kept) ==
    LET Removed(sr) ==
            IF sr.err # "nil"
                THEN [kept |-> kept, dir |-> sr.dir, err |-> sr.err,
                      segments |-> [segs EXCEPT ![k] = sr.segment]]
            ELSE truncateLoop([segs EXCEPT ![k] = sr.segment], sr.dir, lowest,
                              k + 1, kept)
    IN  IF k > Len(segs)
            THEN [kept |-> kept, dir |-> d, err |-> "nil", segments |-> segs]
        ELSE IF segs[k].nextOffset <= lowest
            THEN Removed(segmentRemove(segs[k], d))
        ELSE truncateLoop(segs, d, lowest, k + 1, Append(kept, segs[k]))

\* Log.Truncate: an error of segment.Remove is returned before the segment
\* list is assigned; l.segments[len(l.segments)-1] panics when nothing is
\* kept, and the assignment to l.segments has happened by then.
LogTruncate(segs, active, d, lowest) ==
    LET Assign(tl) ==
            IF tl.err # "nil"
                THEN [segments |-> tl.segments, activeSegment |-> active,
                      dir |-> tl.dir, err |-> tl.err]
            ELSE IF tl.kept = <<>>
                THEN [segments |-> tl.kept, activeSegment |-> active,
                      dir |-> tl.dir, err |-> "panic"]
            ELSE [segments |-> tl.kept, activeSegment |-> Len(tl.kept),
                  dir |-> tl.dir, err |-> "nil"]
    IN  Assign(truncateLoop(segs, d, lowest, 1, <<>>))

\* Log.Reader read to EOF: the bytes of the store file of every segment, in
\* the order of the segment list, each store flushed before it is read; the
\* first error ends the stream.
RECURSIVE LogReader(_, _, _, _)
LogReader(segs, d, k, b) ==
    LET Next1(ra) ==
            IF ra.err # "nil"
                THEN [segments |-> [segs EXCEPT ![k].store = ra.store],
                      dir |-> ra.dir, b |-> b, err |-> ra.err]
            ELSE LogReader([segs EXCEPT ![k].store = ra.store], ra.dir, k + 1,
                           b \o ra.b)
    IN  IF k > Len(segs)
            THEN [segments |-> segs, dir |-> d, b |-> b, err |-> "nil"]
        ELSE Next1(storeReadAll(segs[k].store, d))

\* The files that some descriptor of the segments still holds open.
HeldOpen(segs) ==
    {segs[k].store.name : k \in {j \in 1..Len(segs) : segs[j].store.file = "open"}}
    \cup
    {segs[k].index.name : k \in {j \in 1..Len(segs) : segs[j].index.file = "open"}}

\* os.RemoveAll(l.Dir): the directory and its entries are unlinked; the files
\* that open descriptors hold stay reachable through those descriptors.
RemoveAll(segs, d) ==
    [n \in {Gone} \cup (DOMAIN d \cap HeldOpen(segs)) |->
        IF n = Gone THEN <<>> ELSE d[n]]

\* Log.LowestOffset
LowestOffset(segs) == segs[1].baseOffset

\* Log.HighestOffset that returns the next offset.
HighestOffsetNext(segs) == segs[Len(segs)].nextOffset

\* Log.HighestOffset
HighestOffset(segs) ==
    LET off == segs[Len(segs)].nextOffset
    IN  IF off = 0 THEN 0 ELSE off - 1

(* ------------------------------ actions -------------------------------- *)

EmptyDir == [n \in {} |-> <<>>]

\* Arguments tried for Read and Truncate: every offset up to one past the
\* next offset of the log.
Offsets == 0 .. (config.InitialOffset + Len(history) + 1)

Ret(op, arg, off, record, err, errOffset) ==
    [op |-> op, arg |-> arg, off |-> off, record |-> record, err |-> err,
     errOffset |-> errOffset]

\* pc after a step of another call: a Remove or Reset in flight has then
\* not run alone.
Interleaved == IF pc.next = "idle" THEN pc ELSE [pc EXCEPT !.alone = FALSE]

\* A fault in the mapping or an index out of range ends the process.
Crashed(err) == err \in {"panic", "SIGBUS"}

\* NewLog(dir, c) on the directory d0.
InitOn(d0) ==
    \E sb \in StoreCaps, ib \in IndexCaps, io \in InitialOffsets :
        \E c \in {NewLogConfig([MaxStoreBytes |-> sb, MaxIndexBytes |-> ib,
                                InitialOffset |-> io])} :
            \E s \in {setup(<<>>, 0, d0, c)} :
                /\ config = c
                /\ dir = s.dir
                /\ segments = s.segments
                /\ activeSegment = s.activeSegment
                /\ logState = "open"
                /\ ret = Ret("NewLog", 0, 0, <<>>, s.err, 0)
                /\ history = <<>>
                /\ calls = 0
                /\ reopens = 0
                /\ pc = Idle

\* NewLog(dir, c) on an empty directory.
Init ==
    /\ InitOn(EmptyDir)
    /\ NoUnitRun /\ NoMembershipRun /\ NoAgentRun /\ NoReplicatorRun

\* l.Append(&api.Record{Value: value, Offset: callerOffset})
AppendStep(value, callerOffset) ==
    /\ calls < MaxAppends
    /\ \E r \in {LogAppend(segments, activeSegment, dir, config,
                           [Value |-> value, Offset |-> callerOffset])} :
           /\ segments' = r.segments
           /\ activeSegment' = r.activeSegment
           /\ dir' = r.dir
           /\ ret' = Ret("Append", 0, r.off, <<>>, r.err, 0)
           /\ history' = IF r.err = "nil"
                            THEN Append(history, [offset |-> r.off, value |-> value])
                         ELSE history
           /\ logState' = IF Crashed(r.err) THEN "panicked" ELSE logState
    /\ calls' = calls + 1
    /\ pc' = Interleaved
    /\ UNCHANGED <<config, reopens, notLog>>

\* l.Read(offset)
ReadStep(offset) ==
    /\ \E r \in {LogRead(segments, dir, offset)} :
           /\ segments' = r.segments
           /\ dir' = r.dir
           /\ ret' = Ret("Read", offset, 0, r.record, r.err, r.errOffset)
    /\ pc' = Interleaved
    /\ UNCHANGED <<config, activeSegment, logState, history, calls, reopens,
                   notLog>>

\* l.Truncate(lowest)
TruncateStep(lowest) ==
    /\ \E r \in {LogTruncate(segments, activeSegment, dir, lowest)} :
           /\ segments' = r.segments
           /\ activeSegment' = r.activeSegment
           /\ dir' = r.dir
           /\ logState' = IF Crashed(r.err) THEN "panicked" ELSE logState
           /\ ret' = Ret("Truncate", lowest, 0, <<>>, r.err, 0)
    /\ pc' = Interleaved
    /\ UNCHANGED <<config, history, calls, reopens, notLog>>

\* l.LowestOffset()
LowestOffsetStep ==
    /\ ret' = Ret("LowestOffset", 0, LowestOffset(segments), <<>>, "nil", 0)
    /\ pc' = Interleaved
    /\ UNCHANGED <<config, dir, segments, activeSegment, logState, history,
                   calls, reopens, notLog>>

\* l.HighestOffset()
HighestOffsetStep ==
    /\ ret' = Ret("HighestOffset", 0, HighestOffset(segments), <<>>, "nil", 0)
    /\ pc' = Interleaved
    /\ UNCHANGED <<config, dir, segments, activeSegment, logState, history,
                   calls, reopens, notLog>>

\* The calls on an open log.
CallAppend(value, callerOffset) ==
    logState = "open" /\ AppendStep(value, callerOffset)
CallRead(offset) == logState = "open" /\ ReadStep(offset)
CallTruncate(lowest) == logState = "open" /\ TruncateStep(lowest)
CallLowestOffset == logState = "open" /\ LowestOffsetStep
CallHighestOffset == logState = "open" /\ HighestOffsetStep

\* l.Close()
CallClose ==
    /\ logState = "open"
    /\ \E r \in {LogClose(segments, dir, 1)} :
           /\ segments' = r.segments
           /\ dir' = r.dir
           /\ logState' = IF r.err = "nil" THEN "closed" ELSE logState
           /\ ret' = Ret("Close", 0, 0, <<>>, r.err, 0)
    /\ UNCHANGED <<config, activeSegment, history, calls, reopens, pc, notLog>>

\* NewLog(dir, c) on the directory of a closed log, with the same config;
\* when it fails there is no new Log.
CallNewLog ==
    /\ logState = "closed"
    /\ pc = Idle
    /\ reopens < MaxReopens
    /\ \E s \in {setup(<<>>, 0, dir, config)} :
           /\ segments' = IF s.err = "nil" THEN s.segments ELSE segments
           /\ activeSegment' = IF s.err = "nil" THEN s.activeSegment
                               ELSE activeSegment
           /\ dir' = s.dir
           /\ ret' = Ret("NewLog", 0, 0, <<>>, s.err, 0)
           /\ logState' = IF s.err = "nil" THEN "open"
                          ELSE IF Crashed(s.err) THEN "panicked" ELSE "closed"
    /\ reopens' = reopens + 1
    /\ UNCHANGED <<config, history, calls, pc, notLog>>

Next ==
    \/ \E value \in Payloads, callerOffset \in CallerOffsets :
           CallAppend(value, callerOffset)
    \/ \E offset \in Offsets : CallRead(offset)
    \/ \E lowest \in Offsets : CallTruncate(lowest)
    \/ CallLowestOffset
    \/ CallHighestOffset
    \/ CallClose
    \/ CallNewLog

Spec == Init /\ [][Next]_vars

(* ------------------- the Log after Close, Remove, Reset ----------------- *)

\* The calls on a log whose Close has returned; nothing in Log.Append,
\* Read, Truncate, LowestOffset or HighestOffset asks whether it has.
ClosedAppend(value, callerOffset) ==
    logState = "closed" /\ AppendStep(value, callerOffset)
ClosedRead(offset) == logState = "closed" /\ ReadStep(offset)
ClosedTruncate(lowest) == logState = "closed" /\ TruncateStep(lowest)
ClosedLowestOffset == logState = "closed" /\ LowestOffsetStep
ClosedHighestOffset == logState = "closed" /\ HighestOffsetStep

\* l.Reader(), read to EOF.
CallReader ==
    /\ logState # "panicked"
    /\ \E r \in {LogReader(segments, dir, 1, <<>>)} :
           /\ segments' = r.segments
           /\ dir' = r.dir
           /\ ret' = Ret("Reader", 0, 0, r.b, r.err, 0)
    /\ pc' = Interleaved
    /\ UNCHANGED <<config, activeSegment, logState, history, calls, reopens,
                   notLog>>

\* Log.Remove, line 265, called as Remove or from Reset: l.Close() takes
\* the lock, closes the segments and releases the lock.
RemoveClose(call) ==
    /\ logState = "open"
    /\ pc = Idle
    /\ \E r \in {LogClose(segments, dir, 1)} :
           /\ segments' = r.segments
           /\ dir' = r.dir
           /\ logState' = IF r.err = "nil" THEN "closed" ELSE logState
           /\ pc' = IF r.err = "nil"
                        THEN [call |-> call, next |-> "RemoveAll", alone |-> TRUE]
                    ELSE pc
           /\ ret' = IF r.err = "nil" THEN ret
                     ELSE Ret(call, 0, 0, <<>>, r.err, 0)
    /\ UNCHANGED <<config, activeSegment, history, calls, reopens, notLog>>

\* Log.Remove, line 268: os.RemoveAll(l.Dir), without the lock. Remove
\* returns here; Reset goes on to setup.
RemoveRemoveAll ==
    /\ logState # "panicked"
    /\ pc.next = "RemoveAll"
    /\ dir' = RemoveAll(segments, dir)
    /\ pc' = IF pc.call = "Remove" THEN Idle ELSE [pc EXCEPT !.next = "setup"]
    /\ ret' = IF pc.call = "Remove" THEN Ret("Remove", 0, 0, <<>>, "nil", 0)
              ELSE ret
    /\ UNCHANGED <<config, segments, activeSegment, logState, history, calls,
                   reopens, notLog>>

\* Log.Reset, line 275: l.setup(), without the lock and on the segment list
\* as Close left it.
ResetSetup ==
    /\ logState # "panicked"
    /\ pc.next = "setup"
    /\ \E s \in {setup(segments, activeSegment, dir, config)} :
           /\ segments' = s.segments
           /\ activeSegment' = s.activeSegment
           /\ dir' = s.dir
           /\ ret' = Ret("Reset", 0, 0, <<>>, s.err, 0)
           /\ logState' = IF s.err = "nil" THEN "open"
                          ELSE IF Crashed(s.err) THEN "panicked" ELSE logState
    /\ pc' = Idle
    /\ UNCHANGED <<config, history, calls, reopens, notLog>>

NextLife ==
    \/ Next
    \/ \E value \in Payloads, callerOffset \in CallerOffsets :
           ClosedAppend(value, callerOffset)
    \/ \E offset \in Offsets : ClosedRead(offset)
    \/ \E lowest \in Offsets : ClosedTruncate(lowest)
    \/ ClosedLowestOffset
    \/ ClosedHighestOffset
    \/ CallReader
    \/ \E call \in {"Remove", "Reset"} : RemoveClose(call)
    \/ RemoveRemoveAll
    \/ ResetSetup

\* One Log from NewLog on: its calls while it is open, after Close, and with
\* a Remove or Reset in flight.
SpecLife == Init /\ [][NextLife]_vars

(* ---------------- directories that hold other files too ---------------- *)

\* Files in the directory of the log that are no segment files: their stems
\* are no unsigned integers.
ForeignNames == {<<-1, "txt">>, <<-2, "lock">>}

\* The directories NewLog is first called on: empty, or holding nothing but
\* such files.
ForeignDirs == {[n \in S |-> <<>>] : S \in SUBSET ForeignNames}

InitForeign ==
    /\ \E d0 \in ForeignDirs : InitOn(d0)
    /\ NoUnitRun /\ NoMembershipRun /\ NoAgentRun /\ NoReplicatorRun

\* Somebody puts such a file into the directory of a closed log.
PutForeignFile(name) ==
    /\ logState = "closed"
    /\ pc = Idle
    /\ Exists(dir)
    /\ name \notin DOMAIN dir
    /\ dir' = (name :> <<>>) @@ dir
    /\ UNCHANGED <<config, segments, activeSegment, logState, ret, history,
                   calls, reopens, pc, notLog>>

\* No two segments of the list are open on the same files. Segments that
\* share their files share the mapping and the descriptors' file as well;
\* the model does not follow a log beyond the NewLog that made such a list.
NoSharedFiles ==
    \A j, k \in 1..Len(segments) :
        j # k => segments[j].baseOffset # segments[k].baseOffset

NextForeign ==
    \/ \E value \in Payloads, callerOffset \in CallerOffsets :
           NoSharedFiles /\ CallAppend(value, callerOffset)
    \/ \E offset \in Offsets : NoSharedFiles /\ CallRead(offset)
    \/ \E lowest \in Offsets : NoSharedFiles /\ CallTruncate(lowest)
    \/ NoSharedFiles /\ CallLowestOffset
    \/ NoSharedFiles /\ CallHighestOffset
    \/ NoSharedFiles /\ CallClose
    \/ NoSharedFiles /\ CallNewLog
    \/ \E name \in ForeignNames : PutForeignFile(name)

SpecForeign == InitForeign /\ [][NextForeign]_vars

(* ------------------ reopening with another index size ------------------ *)

\* NewLog(dir, c) on the directory of a closed log with another
\* MaxIndexBytes than the log was written with.
CallNewLogResized(ib) ==
    /\ logState = "closed"
    /\ pc = Idle
    /\ reopens < MaxReopens
    /\ ib # config.MaxIndexBytes
    /\ \E c \in {NewLogConfig([config EXCEPT !.MaxIndexBytes = ib])} :
           \E s \in {setup(<<>>, 0, dir, c)} :
               /\ config' = c
               /\ segments' = IF s.err = "nil" THEN s.segments ELSE segments
               /\ activeSegment' = IF s.err = "nil" THEN s.activeSegment
                                   ELSE activeSegment
               /\ dir' = s.dir
               /\ ret' = Ret("NewLog", 0, 0, <<>>, s.err, 0)
               /\ logState' = IF s.err = "nil" THEN "open"
                              ELSE IF Crashed(s.err) THEN "panicked"
                              ELSE "closed"
    /\ reopens' = reopens + 1
    /\ UNCHANGED <<history, calls, pc, notLog>>

NextResized ==
    \/ \E value \in Payloads, callerOffset \in CallerOffsets :
           CallAppend(value, callerOffset)
    \/ \E offset \in Offsets : CallRead(offset)
    \/ \E lowest \in Offsets : CallTruncate(lowest)
    \/ CallLowestOffset
    \/ CallHighestOffset
    \/ CallClose
    \/ CallNewLog
    \/ \E ib \in IndexCaps : CallNewLogResized(ib)

SpecResized == Init /\ [][NextResized]_vars

(* -------------------- NewLog when a system call fails ------------------- *)

\* The steps of newSegment and newIndex that can fail after the store file
\* has been opened.
Faults == {"index.OpenFile", "os.Stat", "os.Truncate", "gommap.Map"}

\* newSegment in which the step fault fails ("none": no step does). held
\* lists the files whose descriptors the call has opened and not closed
\* when it returns the error; the store file and the index file exist from
\* their os.OpenFile on, and the index file has its new length from
\* os.Truncate on.
newSegmentFault(d, baseOffset, c, fault) ==
    LET Failed(d1, held) == [dir |-> d1, err |-> fault, held |-> held]
        WithStore(d1) ==
            IF fault = "index.OpenFile"
                THEN Failed(d1, <<StoreName(baseOffset)>>)
            ELSE IF fault \in {"os.Stat", "os.Truncate"}
                THEN Failed(OpenFile(d1, IndexName(baseOffset)),
                            <<StoreName(baseOffset), IndexName(baseOffset)>>)
            ELSE Failed(newIndex(OpenFile(d1, IndexName(baseOffset)),
                                 IndexName(baseOffset), c).dir,
                        <<StoreName(baseOffset), IndexName(baseOffset)>>)
    IN  IF ~Exists(d) THEN [dir |-> d, err |-> "ENOENT", held |-> <<>>]
        ELSE IF fault = "none"
            THEN [held |-> <<>>] @@ newSegment(d, baseOffset, c)
        ELSE WithStore(OpenFile(d, StoreName(baseOffset)))

\* Log.setup in which the call number at of newSegment fails at the step
\* fault: the loop over the base offsets, then the first segment of an
\* empty directory. The segments built before the error stay in l.segments.
RECURSIVE setupLoopFault(_, _, _, _, _, _, _)
setupLoopFault(segs, d, baseOffsets, i, c, at, fault) ==
    LET Step(ns) ==
            IF ns.err # "nil"
                THEN [segments |-> segs, dir |-> ns.dir, err |-> ns.err,
                      held |-> ns.held]
            ELSE setupLoopFault(Append(segs, ns.segment), ns.dir, baseOffsets,
                                i + 2, c, at, fault)
    IN  IF i > Len(baseOffsets)
            THEN [segments |-> segs, dir |-> d, err |-> "nil", held |-> <<>>]
        ELSE Step(newSegmentFault(d, baseOffsets[i], c,
                      IF Len(segs) + 1 = at THEN fault ELSE "none"))

setupFault(d, c, at, fault) ==
    LET First(ns) ==
            IF ns.err # "nil"
                THEN [segments |-> <<>>, dir |-> ns.dir, err |-> ns.err,
                      held |-> ns.held]
            ELSE [segments |-> <<ns.segment>>, dir |-> ns.dir, err |-> "nil",
                  held |-> <<>>]
        Bootstrap(found) ==
            IF found.err = "nil" /\ found.segments = <<>>
                THEN First(newSegmentFault(found.dir, c.InitialOffset, c,
                               IF at = 1 THEN fault ELSE "none"))
            ELSE found
    IN  IF ~Exists(d)
            THEN [segments |-> <<>>, dir |-> d, err |-> "ENOENT", held |-> <<>>]
        ELSE Bootstrap(setupLoopFault(<<>>, d, SortedBaseOffsets(DOMAIN d), 1,
                                      c, at, fault))

\* NewLog(dir, c) on the directory of a closed log, in which the call
\* number at of newSegment fails at the step fault. The Log that NewLog
\* returns with the error holds the segments built before it; ret.record
\* lists the files of the segment under construction that are held open.
CallNewLogFault(at, fault) ==
    /\ logState = "closed"
    /\ pc = Idle
    /\ reopens < MaxReopens
    /\ \E s \in {setupFault(dir, config, at, fault)} :
           /\ s.err = fault
           /\ segments' = s.segments
           /\ activeSegment' = Len(s.segments)
           /\ dir' = s.dir
           /\ ret' = Ret("NewLog", at, 0, s.held, s.err, 0)
    /\ logState' = "closed"
    /\ reopens' = reopens + 1
    /\ UNCHANGED <<config, history, calls, pc, notLog>>

NextFault ==
    \/ \E value \in Payloads, callerOffset \in CallerOffsets :
           CallAppend(value, callerOffset)
    \/ \E offset \in Offsets : CallRead(offset)
    \/ \E lowest \in Offsets : CallTruncate(lowest)
    \/ CallLowestOffset
    \/ CallHighestOffset
    \/ CallClose
    \/ CallNewLog
    \/ \E at \in 1..(MaxAppends + 1), fault \in Faults : CallNewLogFault(at, fault)

SpecFault == Init /\ [][NextFault]_vars

(* -------------- directories that miss one file of a segment ------------- *)

\* One file of a segment of a closed log is no longer in the directory: the
\* state segment.Remove leaves when its second os.Remove fails, and the
\* state newSegment leaves when the store file was created and the index
\* file could not be.
LoseFile(name) ==
    /\ logState = "closed"
    /\ pc = Idle
    /\ Exists(dir)
    /\ name \in DOMAIN dir
    /\ dir' = RemoveFile(dir, name)
    /\ UNCHANGED <<config, segments, activeSegment, logState, ret, history,
                   calls, reopens, pc, notLog>>

\* The file names of the segments a log of the model can have.
SegmentFileNames ==
    LET last == MaxAppends + CHOOSE m \in InitialOffsets :
                                 \A k \in InitialOffsets : k <= m
    IN  {StoreName(b) : b \in 0..last} \cup {IndexName(b) : b \in 0..last}

NextPartial ==
    \/ \E value \in Payloads, callerOffset \in CallerOffsets :
           CallAppend(value, callerOffset)
    \/ \E offset \in Offsets : CallRead(offset)
    \/ \E lowest \in Offsets : CallTruncate(lowest)
    \/ CallLowestOffset
    \/ CallHighestOffset
    \/ CallClose
    \/ CallNewLog
    \/ \E name \in SegmentFileNames : LoseFile(name)

SpecPartial == Init /\ [][NextPartial]_vars

(* -------------------------- an index by itself -------------------------- *)

\* Relative offsets and store positions written to the index.
EntryOffsets == {0, 1, 5}
EntryPositions == {0, 8, 300}

\* Arguments of index.Read. The int64 argument is hi * 2^32 + lo with
\* 0 <= lo < 2^32, and <<0, -1>> stands for -1.
ReadArgs == {<<0, lo>> : lo \in -1..3} \cup {<<1, lo>> : lo \in 0..3}

\* The conversion uint32(offset) in index.Read keeps the low 32 bits.
Uint32(hi, lo) == lo

\* newIndex on a new, empty file.
InitIndex ==
    /\ \E ib \in IndexCaps :
           idx = newIndex(OpenFile(EmptyDir, IndexName(0)), IndexName(0),
                          [MaxIndexBytes |-> ib]).index
    /\ idxWritten = <<>>
    /\ idxRet = [op |-> "none"]
    /\ NoServerRun /\ NoStoreRun /\ NoClusterRun
    /\ NoLogRun /\ NoMembershipRun /\ NoAgentRun /\ NoReplicatorRun

\* idx.Write(offset, pos)
IndexWrite(offset, pos) ==
    /\ \E r \in {indexWrite(idx, offset, pos)} :
           /\ idx' = r.index
           /\ idxWritten' = IF r.err = "nil"
                                THEN Append(idxWritten, <<offset, pos>>)
                            ELSE idxWritten
           /\ idxRet' = [op |-> "Write", before |-> idx, err |-> r.err]
    /\ UNCHANGED <<serverVars, storeVars, logVars, clusterVars, membershipVars, agentVars,
                   replicatorVars>>

\* idx.Read(hi * 2^32 + lo)
IndexRead(hi, lo) ==
    /\ \E r \in {indexRead(idx, Uint32(hi, lo))} :
           idxRet' = [op |-> "Read", hi |-> hi, lo |-> lo, out |-> r.out,
                      pos |-> r.pos, err |-> r.err]
    /\ UNCHANGED <<idx, idxWritten, serverVars, storeVars, logVars,
                   clusterVars, membershipVars, agentVars, replicatorVars>>

NextIndex ==
    \/ \E offset \in EntryOffsets, pos \in EntryPositions :
           IndexWrite(offset, pos)
    \/ \E n \in ReadArgs : IndexRead(n[1], n[2])

SpecIndex == InitIndex /\ [][NextIndex]_vars

(* ----------------------- server.ConsumeStream --------------------------- *)

\* The offsets a ConsumeStream request starts at.
StartOffsets == {0, 1, 2}

\* A server on a new log; no ConsumeStream call yet.
InitStream ==
    /\ InitOn(EmptyDir)
    /\ NoServerRun /\ NoIndexRun /\ NoStoreRun /\ NoClusterRun
    /\ NoMembershipRun /\ NoAgentRun /\ NoReplicatorRun

\* A client calls ConsumeStream with req.Offset = o. waitedAt is the last
\* offset at which the stream found the end of the log, -1 for none.
StreamStart(o) ==
    /\ stream.pc = "none"
    /\ stream' = [stream EXCEPT !.pc = "select", !.start = o, !.offset = o]
    /\ UNCHANGED <<logVars, indexVars, storeVars, clusterVars, membershipVars, agentVars,
                   replicatorVars>>

\* The context of the stream is done: the client went away.
StreamCancel ==
    /\ stream.pc \in {"select", "consume", "send"}
    /\ ~stream.done
    /\ stream' = [stream EXCEPT !.done = TRUE]
    /\ UNCHANGED <<logVars, indexVars, storeVars, clusterVars, membershipVars, agentVars,
                   replicatorVars>>

\* select: case <-stream.Context().Done() returns nil, default goes on.
StreamSelect ==
    /\ stream.pc = "select"
    /\ stream' = IF stream.done THEN [stream EXCEPT !.pc = "returned"]
                 ELSE [stream EXCEPT !.pc = "consume"]
    /\ UNCHANGED <<logVars, indexVars, storeVars, clusterVars, membershipVars, agentVars,
                   replicatorVars>>

\* g.Consume with an offset-out-of-range error returned as any other error.
StreamConsumeStopAtEnd(allowed) ==
    /\ stream.pc = "consume"
    /\ IF ~allowed
           THEN /\ stream' = [stream EXCEPT !.pc = "returned",
                                            !.err = "PermissionDenied"]
                /\ UNCHANGED <<segments, dir>>
           ELSE \E r \in {LogRead(segments, dir, stream.offset)} :
                    /\ segments' = r.segments
                    /\ dir' = r.dir
                    /\ stream' = IF r.err = "nil"
                                     THEN [stream EXCEPT !.pc = "send",
                                                         !.res = r.record]
                                 ELSE [stream EXCEPT !.pc = "returned",
                                                     !.err = r.err]
    /\ UNCHANGED <<config, activeSegment, logState, ret, history, calls,
                   reopens, pc, indexVars, storeVars, clusterVars, membershipVars,
                   agentVars, replicatorVars>>

\* g.Consume(ctx, req) and the switch on its error: Authorize, then
\* CommitLog.Read(req.Offset); offset-out-of-range goes back to the select,
\* any other error ends the stream.
StreamConsume(allowed) ==
    /\ stream.pc = "consume"
    /\ IF ~allowed
           THEN /\ stream' = [stream EXCEPT !.pc = "returned",
                                            !.err = "PermissionDenied"]
                /\ UNCHANGED <<segments, dir>>
           ELSE \E r \in {LogRead(segments, dir, stream.offset)} :
                    /\ segments' = r.segments
                    /\ dir' = r.dir
                    /\ stream' = IF r.err = "nil"
                                     THEN [stream EXCEPT !.pc = "send",
                                                         !.res = r.record]
                                 ELSE IF r.err = "ErrOffsetOutOfRange"
                                     THEN [stream EXCEPT
                                               !.pc = "select",
                                               !.waitedAt = stream.offset]
                                 ELSE [stream EXCEPT !.pc = "returned",
                                                     !.err = r.err]
    /\ UNCHANGED <<config, activeSegment, logState, ret, history, calls,
                   reopens, pc, indexVars, storeVars, clusterVars, membershipVars,
                   agentVars, replicatorVars>>

\* stream.Send(res); req.Offset++
StreamSend(ok) ==
    /\ stream.pc = "send"
    /\ stream' = IF ok
                     THEN [stream EXCEPT !.pc = "select",
                                         !.sent = stream.sent \o stream.res,
                                         !.res = <<>>,
                                         !.offset = stream.offset + 1]
                 ELSE [stream EXCEPT !.pc = "returned", !.res = <<>>,
                                     !.err = "Unavailable"]
    /\ UNCHANGED <<logVars, indexVars, storeVars, clusterVars, membershipVars, agentVars,
                   replicatorVars>>

\* The log behind the server is appended to (Produce) while the stream runs.
NextStream ==
    \/ \E value \in Payloads, callerOffset \in CallerOffsets :
           CallAppend(value, callerOffset)
    \/ \E o \in StartOffsets : StreamStart(o)
    \/ StreamCancel
    \/ StreamSelect
    \/ \E allowed \in BOOLEAN : StreamConsume(allowed)
    \/ \E ok \in BOOLEAN : StreamSend(ok)

SpecStream == InitStream /\ [][NextStream]_vars

\* The goroutine of the handler runs, and its calls return.
StreamFairness ==
    /\ WF_vars(StreamSelect)
    /\ WF_vars(\E allowed \in BOOLEAN : StreamConsume(allowed))
    /\ WF_vars(\E ok \in BOOLEAN : StreamSend(ok))

FairSpecStream == SpecStream /\ StreamFairness

(* ----------------------- discovery.Membership --------------------------- *)

\* Number of events Serf sends in one behaviour.
MaxEvents == 3

\* The nodes of the cluster; the Membership modelled is that of LocalName.
NodeNames == {"0", "1", "2"}
LocalName == "0"

\* serf.Member, as far as Membership reads it: the name and the rpc_addr tag.
Member(name) == [Name |-> name, Tags |-> [rpc_addr |-> "127.0.0.1:" \o name]]

\* The member lists of an event: one node, or two in either order.
MemberLists ==
    {<<Member(n)>> : n \in NodeNames}
    \cup {<<Member(p[1]), Member(p[2])>> :
             p \in {q \in NodeNames \X NodeNames : q[1] # q[2]}}

EventTypes == {"member-join", "member-leave", "member-failed"}

\* Membership.isLocal
isLocal(member) == LocalName = member.Name

\* Membership.handleJoin: the handler's Join with the name and the tag.
handleJoin(called, member) ==
    Append(called, [op |-> "Join", name |-> member.Name,
                    addr |-> member.Tags.rpc_addr])

\* Membership.handleLeave
handleLeave(called, member) ==
    Append(called, [op |-> "Leave", name |-> member.Name])

\* eventHandler, lines 100-105: the local member is skipped.
RECURSIVE joinLoop(_, _, _)
joinLoop(members, i, called) ==
    IF i > Len(members) THEN [called |-> called, pc |-> "running"]
    ELSE IF isLocal(members[i]) THEN joinLoop(members, i + 1, called)
    ELSE joinLoop(members, i + 1, handleJoin(called, members[i]))

\* eventHandler, lines 107-114: at the local member eventHandler returns.
RECURSIVE leaveLoop(_, _, _)
leaveLoop(members, i, called) ==
    IF i > Len(members) THEN [called |-> called, pc |-> "running"]
    ELSE IF isLocal(members[i]) THEN [called |-> called, pc |-> "returned"]
    ELSE leaveLoop(members, i + 1, handleLeave(called, members[i]))

\* discovery.New: no event yet, eventHandler is running.
NewMembership == NoMembershipRun

InitMembership ==
    NewMembership /\ NoLogRun /\ NoUnitRun /\ NoAgentRun /\ NoReplicatorRun

\* Serf puts an event on the events channel.
SerfEvent(type, members) ==
    /\ Len(events) < MaxEvents
    /\ events' = Append(events, [type |-> type, members |-> members])
    /\ UNCHANGED <<delivered, handlerPc, handlerCalls, logVars, unitVars, agentVars,
                   replicatorVars>>

\* eventHandler: one turn of the loop over m.events.
eventHandler ==
    /\ handlerPc = "running"
    /\ delivered < Len(events)
    /\ \E e \in {events[delivered + 1]} :
           \E r \in {IF e.type = "member-join"
                         THEN joinLoop(e.members, 1, handlerCalls)
                     ELSE IF e.type = "member-leave"
                         THEN leaveLoop(e.members, 1, handlerCalls)
                     ELSE [called |-> handlerCalls, pc |-> "running"]} :
               /\ handlerCalls' = r.called
               /\ handlerPc' = r.pc
    /\ delivered' = delivered + 1
    /\ UNCHANGED <<events, logVars, unitVars, agentVars, replicatorVars>>

NextMembership ==
    \/ \E type \in EventTypes, members \in MemberLists : SerfEvent(type, members)
    \/ eventHandler

SpecMembership == InitMembership /\ [][NextMembership]_vars

(* --------------------------- agent.Agent -------------------------------- *)

\* Number of Shutdown calls in one behaviour.
MaxShutdownCalls == 3

\* The slice of functions Shutdown runs, in order.
ShutdownSteps ==
    <<"membership.Leave", "replicator.Close", "server.GracefulStop",
      "log.Close">>

\* The errors a step can return: Replicator.Close and the wrapper around
\* GracefulStop always return nil.
StepErrs(step) ==
    IF step \in {"membership.Leave", "log.Close"} THEN {"nil", "error"}
    ELSE {"nil"}

\* agent.New: nothing shut down, nobody in Shutdown.
InitAgent == NoAgentRun /\ NoLogRun /\ NoUnitRun /\ NoMembershipRun /\ NoReplicatorRun

\* A goroutine calls a.Shutdown() and waits for the lock.
ShutdownCall ==
    /\ shutdownCalls < MaxShutdownCalls
    /\ shutdownCalls' = shutdownCalls + 1
    /\ callers' = Append(callers, [pc |-> "Lock", i |-> 0, err |-> "nil"])
    /\ UNCHANGED <<shutdown, shutdowns, shutdownLock, stepsRun, logVars, unitVars,
                   membershipVars, replicatorVars>>

\* a.shutdownLock.Lock()
ShutdownLock(c) ==
    /\ callers[c].pc = "Lock"
    /\ shutdownLock = 0
    /\ shutdownLock' = c
    /\ callers' = [callers EXCEPT ![c].pc = "check"]
    /\ UNCHANGED <<shutdown, shutdowns, stepsRun, shutdownCalls, logVars, unitVars,
                   membershipVars, replicatorVars>>

\* The test of a.shutdown is left out: every caller sets the flag, closes
\* the channel and goes on to the steps.
ShutdownCheckNoFlag(c) ==
    /\ callers[c].pc = "check"
    /\ shutdown' = TRUE
    /\ shutdowns' = shutdowns + 1
    /\ callers' = [callers EXCEPT ![c].pc = "steps", ![c].i = 1]
    /\ UNCHANGED <<shutdownLock, stepsRun, shutdownCalls, logVars, unitVars,
                   membershipVars, replicatorVars>>

\* if a.shutdown { return nil }; a.shutdown = true; close(a.shutdowns).
\* The deferred Unlock runs at the return.
ShutdownCheck(c) ==
    /\ callers[c].pc = "check"
    /\ IF shutdown
           THEN /\ callers' = [callers EXCEPT ![c].pc = "returned"]
                /\ shutdownLock' = 0
                /\ UNCHANGED <<shutdown, shutdowns>>
           ELSE /\ shutdown' = TRUE
                /\ shutdowns' = shutdowns + 1
                /\ callers' = [callers EXCEPT ![c].pc = "steps", ![c].i = 1]
                /\ UNCHANGED shutdownLock
    /\ UNCHANGED <<stepsRun, shutdownCalls, logVars, unitVars, membershipVars,
                   replicatorVars>>

\* One turn of the loop over the shutdown functions: the function runs, an
\* error ends Shutdown, and so does the end of the slice.
ShutdownStep(c, err) ==
    /\ callers[c].pc = "steps"
    /\ err \in StepErrs(ShutdownSteps[callers[c].i])
    /\ stepsRun' = Append(stepsRun, ShutdownSteps[callers[c].i])
    /\ IF err # "nil" \/ callers[c].i = Len(ShutdownSteps)
           THEN /\ callers' = [callers EXCEPT ![c].pc = "returned",
                                              ![c].err = err]
                /\ shutdownLock' = 0
           ELSE /\ callers' = [callers EXCEPT ![c].i = @ + 1]
                /\ UNCHANGED shutdownLock
    /\ UNCHANGED <<shutdown, shutdowns, shutdownCalls, logVars, unitVars,
                   membershipVars, replicatorVars>>

NextAgent ==
    \/ ShutdownCall
    \/ \E c \in 1..Len(callers) : ShutdownLock(c)
    \/ \E c \in 1..Len(callers) : ShutdownCheck(c)
    \/ \E c \in 1..Len(callers), err \in {"nil", "error"} : ShutdownStep(c, err)

SpecAgent == InitAgent /\ [][NextAgent]_vars

(* --------------------------- log.Replicator ----------------------------- *)

\* Number of replicate() goroutines started in one behaviour, and number of
\* records the goroutines take from their streams.
MaxJoins == 1
MaxRecords == 1

\* The servers a node replicates from: every node but itself.
ReplNames == NodeNames \ {LocalName}

\* Replicator.init: r.close is made on first use. Channel 1 is r.close, the
\* channels made by Join follow; closes[c] counts the close(c) executed.
init(cl) == IF cl = <<>> THEN <<0>> ELSE cl

\* The zero Replicator: no map, no close channel, no goroutine.
InitReplicator ==
    NoReplicatorRun /\ NoLogRun /\ NoUnitRun /\ NoMembershipRun /\ NoAgentRun

\* Join without the test of r.closed.
ReplicatorJoinNoClosedCheck(name) ==
    /\ name \notin DOMAIN servers => Len(goroutines) < MaxJoins
    /\ IF name \in DOMAIN servers
           THEN /\ closes' = init(closes)
                /\ replRet' = [op |-> "Join", started |-> FALSE]
                /\ UNCHANGED <<servers, goroutines>>
           ELSE /\ closes' = Append(init(closes), 0)
                /\ servers' = [n \in DOMAIN servers \cup {name} |->
                                  IF n = name THEN Len(init(closes)) + 1
                                  ELSE servers[n]]
                /\ goroutines' = Append(goroutines,
                       [name |-> name, addr |-> Member(name).Tags.rpc_addr,
                        leave |-> Len(init(closes)) + 1, pc |-> "dial",
                        how |-> "running", taken |-> 0, late |-> FALSE])
                /\ replRet' = [op |-> "Join", started |-> TRUE]
    /\ UNCHANGED <<closed, produced, logVars, unitVars, membershipVars, agentVars>>

\* r.Join(name, addr), under r.mu from start to end.
ReplicatorJoin(name) ==
    /\ (~closed /\ name \notin DOMAIN servers) => Len(goroutines) < MaxJoins
    /\ IF closed \/ name \in DOMAIN servers
           THEN /\ closes' = init(closes)
                /\ replRet' = [op |-> "Join", started |-> FALSE]
                /\ UNCHANGED <<servers, goroutines>>
           ELSE /\ closes' = Append(init(closes), 0)
                /\ servers' = [n \in DOMAIN servers \cup {name} |->
                                  IF n = name THEN Len(init(closes)) + 1
                                  ELSE servers[n]]
                /\ goroutines' = Append(goroutines,
                       [name |-> name, addr |-> Member(name).Tags.rpc_addr,
                        leave |-> Len(init(closes)) + 1, pc |-> "dial",
                        how |-> "running", taken |-> 0, late |-> FALSE])
                /\ replRet' = [op |-> "Join", started |-> TRUE]
    /\ UNCHANGED <<closed, produced, logVars, unitVars, membershipVars, agentVars>>

\* r.Leave(name), under r.mu from start to end.
ReplicatorLeave(name) ==
    /\ IF name \notin DOMAIN servers
           THEN /\ closes' = init(closes)
                /\ replRet' = [op |-> "Leave", started |-> FALSE]
                /\ UNCHANGED servers
           ELSE /\ closes' = [closes EXCEPT ![servers[name]] = @ + 1]
                /\ servers' = [n \in DOMAIN servers \ {name} |-> servers[n]]
                /\ replRet' = [op |-> "Leave", started |-> TRUE]
    /\ UNCHANGED <<closed, goroutines, produced, logVars, unitVars, membershipVars,
                   agentVars>>

\* r.Close(), under r.mu from start to end.
ReplicatorClose ==
    /\ IF closed
           THEN UNCHANGED <<closed, closes>>
           ELSE /\ closed' = TRUE
                /\ closes' = [init(closes) EXCEPT ![1] = @ + 1]
    /\ replRet' = [op |-> "Close", started |-> FALSE]
    /\ UNCHANGED <<servers, goroutines, produced, logVars, unitVars, membershipVars,
                   agentVars>>

\* The records the goroutines have taken from their streams so far.
RECURSIVE Taken(_)
Taken(gs) ==
    IF gs = <<>> THEN 0 ELSE gs[Len(gs)].taken + Taken(SubSeq(gs, 1, Len(gs) - 1))

\* A goroutine of replicate() moves to position at; a return records why.
Goto(g, at, how) ==
    goroutines' = [goroutines EXCEPT ![g].pc = at, ![g].how = how]

\* replicate: grpc.NewClient(addr, ...)
replicateDial(g, ok) ==
    /\ g \in 1..Len(goroutines)
    /\ goroutines[g].pc = "dial"
    /\ IF ok THEN Goto(g, "consume", "running")
       ELSE Goto(g, "returned", "error")
    /\ UNCHANGED <<servers, closed, closes, produced, replRet, logVars, unitVars,
                   membershipVars, agentVars>>

\* replicate: client.ConsumeStream(ctx, ...) and the start of the receiver.
replicateConsume(g, ok) ==
    /\ g \in 1..Len(goroutines)
    /\ goroutines[g].pc = "consume"
    /\ IF ok THEN Goto(g, "select", "running")
       ELSE Goto(g, "returned", "error")
    /\ UNCHANGED <<servers, closed, closes, produced, replRet, logVars, unitVars,
                   membershipVars, agentVars>>

\* select: case <-r.close, ready once r.close is closed.
selectClose(g) ==
    /\ g \in 1..Len(goroutines)
    /\ goroutines[g].pc = "select"
    /\ closes[1] > 0
    /\ Goto(g, "returned", "close")
    /\ UNCHANGED <<servers, closed, closes, produced, replRet, logVars, unitVars,
                   membershipVars, agentVars>>

\* select: case <-leave, ready once the server's channel is closed.
selectLeave(g) ==
    /\ g \in 1..Len(goroutines)
    /\ goroutines[g].pc = "select"
    /\ closes[goroutines[g].leave] > 0
    /\ Goto(g, "returned", "leave")
    /\ UNCHANGED <<servers, closed, closes, produced, replRet, logVars, unitVars,
                   membershipVars, agentVars>>

\* select: case record := <-records, ready when the receiver has a record.
\* late notes whether the server's channel was closed already.
selectRecord(g) ==
    /\ g \in 1..Len(goroutines)
    /\ goroutines[g].pc = "select"
    /\ Taken(goroutines) < MaxRecords
    /\ goroutines' = [goroutines EXCEPT
                          ![g].pc = "produce", ![g].taken = @ + 1,
                          ![g].late = closes[goroutines[g].leave] > 0]
    /\ UNCHANGED <<servers, closed, closes, produced, replRet, logVars, unitVars,
                   membershipVars, agentVars>>

\* r.LocalServer.Produce(ctx, ...): an error ends replicate().
replicateProduce(g, ok) ==
    /\ g \in 1..Len(goroutines)
    /\ goroutines[g].pc = "produce"
    /\ IF ok
           THEN /\ produced' = Append(produced,
                        [name |-> goroutines[g].name,
                         leave |-> goroutines[g].leave,
                         late |-> goroutines[g].late])
                /\ goroutines' = [goroutines EXCEPT ![g].pc = "select",
                                                     ![g].late = FALSE]
           ELSE /\ goroutines' = [goroutines EXCEPT ![g].pc = "returned",
                                                     ![g].how = "error",
                                                     ![g].late = FALSE]
                /\ UNCHANGED produced
    /\ UNCHANGED <<servers, closed, closes, replRet, logVars, unitVars, membershipVars,
                   agentVars>>

NextReplicator ==
    \/ \E name \in ReplNames : ReplicatorJoin(name)
    \/ \E name \in ReplNames : ReplicatorLeave(name)
    \/ ReplicatorClose
    \/ \E g \in 1..MaxJoins, ok \in BOOLEAN : replicateDial(g, ok)
    \/ \E g \in 1..MaxJoins, ok \in BOOLEAN : replicateConsume(g, ok)
    \/ \E g \in 1..MaxJoins : selectClose(g)
    \/ \E g \in 1..MaxJoins : selectLeave(g)
    \/ \E g \in 1..MaxJoins : selectRecord(g)
    \/ \E g \in 1..MaxJoins, ok \in BOOLEAN : replicateProduce(g, ok)

SpecReplicator == InitReplicator /\ [][NextReplicator]_vars

\* The calls replicate() makes return, and a select with a closed channel
\* among its cases takes that case sooner or later: Go picks among the
\* ready cases of a select at random.
ReplicatorFairness ==
    \A g \in 1..MaxJoins :
        /\ WF_vars(\E ok \in BOOLEAN : \/ replicateDial(g, ok)
                                        \/ replicateConsume(g, ok)
                                        \/ replicateProduce(g, ok))
        /\ SF_vars(selectClose(g) \/ selectLeave(g))

FairSpecReplicator == SpecReplicator /\ ReplicatorFairness


(* ------------------- a store used by several goroutines ---------------- *)

MaxThreads == 3

\* The calls that reach one store at the same time: store.Append from
\* Log.Append, store.Read from Log.Read, store.ReadAt from originReader.Read.
StoreCalls == {"Append", "Read", "ReadAt"}

InitStore ==
    /\ NoStoreRun
    /\ NoIndexRun /\ NoServerRun /\ NoClusterRun
    /\ NoLogRun /\ NoMembershipRun /\ NoAgentRun /\ NoReplicatorRun

\* A goroutine calls the store; p is what Append is given.
StoreGo(call, p) ==
    /\ Len(threads) < MaxThreads
    /\ call # "Append" => p = <<>>
    /\ threads' = Append(threads, [call |-> call, pc |-> "start", p |-> p,
                                   bytes |-> <<>>])
    /\ UNCHANGED <<st, stDir, storeMu>>
    /\ UNCHANGED <<logVars, indexVars, serverVars, clusterVars, membershipVars, agentVars,
                   replicatorVars>>

\* s.mu.Lock() in store.Append and store.Read: no other holder. After it
\* Append writes to s.buf, and Read calls s.buf.Flush(), which starts with
\* the bytes it finds in the buffer.
StoreLock(t) ==
    /\ t \in 1..Len(threads)
    /\ threads[t].pc = "start"
    /\ threads[t].call \in {"Append", "Read"}
    /\ storeMu.w = 0 /\ storeMu.r = {}
    /\ storeMu' = [storeMu EXCEPT !.w = t]
    /\ threads' = [threads EXCEPT
                       ![t].pc = IF threads[t].call = "Append"
                                     THEN "writing" ELSE "flushing",
                       ![t].bytes = IF threads[t].call = "Append"
                                        THEN <<>> ELSE st.buf]
    /\ UNCHANGED <<st, stDir>>
    /\ UNCHANGED <<logVars, indexVars, serverVars, clusterVars, membershipVars, agentVars,
                   replicatorVars>>

\* s.mu.RLock() in store.ReadAt: no writer holds the lock, other readers
\* may. After it ReadAt calls s.buf.Flush().
StoreRLock(t) ==
    /\ t \in 1..Len(threads)
    /\ threads[t].pc = "start"
    /\ threads[t].call = "ReadAt"
    /\ storeMu.w = 0
    /\ storeMu' = [storeMu EXCEPT !.r = storeMu.r \cup {t}]
    /\ threads' = [threads EXCEPT ![t].pc = "flushing", ![t].bytes = st.buf]
    /\ UNCHANGED <<st, stDir>>
    /\ UNCHANGED <<logVars, indexVars, serverVars, clusterVars, membershipVars, agentVars,
                   replicatorVars>>

\* store.Append: binary.Write and s.buf.Write, s.size, and the deferred
\* Unlock.
StoreWrite(t) ==
    /\ t \in 1..Len(threads)
    /\ threads[t].pc = "writing"
    /\ st' = storeAppend(st, threads[t].p).store
    /\ storeMu' = [storeMu EXCEPT !.w = 0]
    /\ threads' = [threads EXCEPT ![t].pc = "returned"]
    /\ UNCHANGED stDir
    /\ UNCHANGED <<logVars, indexVars, serverVars, clusterVars, membershipVars, agentVars,
                   replicatorVars>>

\* s.buf.Flush() completes: the bytes this goroutine found in the buffer go
\* to the file and the buffer is emptied. When another goroutine flushed in
\* between, the same bytes go to the file a second time; the schedule
\* decides whether a goroutine finds the buffer before or after the other
\* one emptied it.
StoreFlush(t) ==
    /\ t \in 1..Len(threads)
    /\ threads[t].pc = "flushing"
    /\ \E r \in {Flush([st EXCEPT !.buf = threads[t].bytes], stDir)} :
           /\ st' = r.store
           /\ stDir' = r.dir
    /\ threads' = [threads EXCEPT ![t].pc = "reading"]
    /\ UNCHANGED storeMu
    /\ UNCHANGED <<logVars, indexVars, serverVars, clusterVars, membershipVars, agentVars,
                   replicatorVars>>

\* s.File.ReadAt and the deferred Unlock (store.Read) or RUnlock
\* (store.ReadAt).
StoreReadFile(t) ==
    /\ t \in 1..Len(threads)
    /\ threads[t].pc = "reading"
    /\ storeMu' = IF threads[t].call = "Read"
                      THEN [storeMu EXCEPT !.w = 0]
                  ELSE [storeMu EXCEPT !.r = storeMu.r \ {t}]
    /\ threads' = [threads EXCEPT ![t].pc = "returned"]
    /\ UNCHANGED <<st, stDir>>
    /\ UNCHANGED <<logVars, indexVars, serverVars, clusterVars, membershipVars, agentVars,
                   replicatorVars>>

NextStore ==
    \/ \E call \in StoreCalls, p \in Payloads : StoreGo(call, p)
    \/ \E t \in 1..MaxThreads : StoreLock(t)
    \/ \E t \in 1..MaxThreads : StoreRLock(t)
    \/ \E t \in 1..MaxThreads : StoreWrite(t)
    \/ \E t \in 1..MaxThreads : StoreFlush(t)
    \/ \E t \in 1..MaxThreads : StoreReadFile(t)

SpecStore == InitStore /\ [][NextStore]_vars

(* ------------------ Replicator: a server that comes back ---------------- *)

\* Number of replicate() goroutines started in a behaviour in which a server
\* joins again after it has left.
MaxRejoins == 2

\* r.Join(name, addr) for a server that was replicated before and has left:
\* the name is not in the map, so a channel is made and replicate() started.
ReplicatorRejoin(name) ==
    /\ ~closed
    /\ name \notin DOMAIN servers
    /\ \E g \in 1..Len(goroutines) : goroutines[g].name = name
    /\ Len(goroutines) < MaxRejoins
    /\ closes' = Append(init(closes), 0)
    /\ servers' = [n \in DOMAIN servers \cup {name} |->
                      IF n = name THEN Len(init(closes)) + 1 ELSE servers[n]]
    /\ goroutines' = Append(goroutines,
           [name |-> name, addr |-> Member(name).Tags.rpc_addr,
            leave |-> Len(init(closes)) + 1, pc |-> "dial",
            how |-> "running", taken |-> 0, late |-> FALSE])
    /\ replRet' = [op |-> "Join", started |-> TRUE]
    /\ UNCHANGED <<closed, produced, logVars, unitVars, membershipVars,
                   agentVars>>

NextRejoin ==
    \/ \E name \in ReplNames : ReplicatorJoin(name)
    \/ \E name \in ReplNames : ReplicatorRejoin(name)
    \/ \E name \in ReplNames : ReplicatorLeave(name)
    \/ ReplicatorClose
    \/ \E g \in 1..MaxRejoins, ok \in BOOLEAN : replicateDial(g, ok)
    \/ \E g \in 1..MaxRejoins, ok \in BOOLEAN : replicateConsume(g, ok)
    \/ \E g \in 1..MaxRejoins : selectClose(g)
    \/ \E g \in 1..MaxRejoins : selectLeave(g)
    \/ \E g \in 1..MaxRejoins : selectRecord(g)
    \/ \E g \in 1..MaxRejoins, ok \in BOOLEAN : replicateProduce(g, ok)

SpecRejoin == InitReplicator /\ [][NextRejoin]_vars

(* ------------------ servers that replicate from each other -------------- *)

\* Records that clients produce, replicate() goroutines started, and the
\* length up to which a log is followed.
MaxClientRecords == 1
MaxReplicas == 3
MaxLogLen == 3

\* The values of the records in the logs; a client gives every record it
\* produces a value of its own.
ClientValues ==
    UNION {{logs[n][i].Value : i \in 1..Len(logs[n])} : n \in ClusterNodes}

\* The logs have room (InitialOffset 0, no cap reached): Append gives the
\* record the next offset, Read(o) returns the record appended with o.
ClusterAppend(log, value) ==
    Append(log, [Value |-> value, Offset |-> Len(log)])

InitCluster ==
    /\ NoClusterRun
    /\ NoIndexRun /\ NoServerRun /\ NoStoreRun
    /\ NoLogRun /\ NoMembershipRun /\ NoAgentRun /\ NoReplicatorRun

\* A client calls Produce on server n: g.CommitLog.Append(req.Record).
ClientProduce(n, value) ==
    /\ value = Cardinality(ClientValues) + 1
    /\ value <= MaxClientRecords
    /\ Len(logs[n]) < MaxLogLen
    /\ logs' = [logs EXCEPT ![n] = ClusterAppend(logs[n], value)]
    /\ UNCHANGED <<peers, replicas>>
    /\ UNCHANGED <<logVars, indexVars, serverVars, storeVars, membershipVars,
                   agentVars, replicatorVars>>

\* The Replicator of server n: r.Join(name, addr). No Replicator is closed
\* here. A new goroutine dials, calls ConsumeStream with Offset 0 and
\* reaches its select.
ClusterJoin(n, name) ==
    /\ n # name
    /\ name \notin DOMAIN peers[n]
    /\ Len(replicas) < MaxReplicas
    /\ peers' = [peers EXCEPT ![n] = (name :> Len(replicas) + 1) @@ peers[n]]
    /\ replicas' = Append(replicas,
           [at |-> n, from |-> name, offset |-> 0, pc |-> "select",
            record |-> 0, left |-> FALSE])
    /\ UNCHANGED logs
    /\ UNCHANGED <<logVars, indexVars, serverVars, storeVars, membershipVars,
                   agentVars, replicatorVars>>

\* The Replicator of server n: r.Leave(name) closes the channel of the
\* goroutine and deletes the name.
ClusterLeave(n, name) ==
    /\ name \in DOMAIN peers[n]
    /\ replicas' = [replicas EXCEPT ![peers[n][name]].left = TRUE]
    /\ peers' = [peers EXCEPT
                     ![n] = [m \in DOMAIN peers[n] \ {name} |-> peers[n][m]]]
    /\ UNCHANGED logs
    /\ UNCHANGED <<logVars, indexVars, serverVars, storeVars, membershipVars,
                   agentVars, replicatorVars>>

\* select: case <-leave
replicaLeave(g) ==
    /\ g \in 1..Len(replicas)
    /\ replicas[g].pc = "select"
    /\ replicas[g].left
    /\ replicas' = [replicas EXCEPT ![g].pc = "returned"]
    /\ UNCHANGED <<logs, peers>>
    /\ UNCHANGED <<logVars, indexVars, serverVars, storeVars, membershipVars,
                   agentVars, replicatorVars>>

\* select: case record := <-records. The peer's ConsumeStream has read the
\* record at req.Offset from its log, sent it and gone on to the next
\* offset; the receiver has passed the record on.
replicaRecord(g) ==
    /\ g \in 1..Len(replicas)
    /\ replicas[g].pc = "select"
    /\ replicas[g].offset < Len(logs[replicas[g].from])
    /\ replicas' = [replicas EXCEPT
           ![g].pc = "produce",
           ![g].record = logs[replicas[g].from][replicas[g].offset + 1].Value,
           ![g].offset = @ + 1]
    /\ UNCHANGED <<logs, peers>>
    /\ UNCHANGED <<logVars, indexVars, serverVars, storeVars, membershipVars,
                   agentVars, replicatorVars>>

\* r.LocalServer.Produce(ctx, &api.ProduceRequest{Record: record}): the
\* local log appends the record; an error ends replicate().
replicaProduce(g, ok) ==
    /\ g \in 1..Len(replicas)
    /\ replicas[g].pc = "produce"
    /\ IF ok
           THEN /\ Len(logs[replicas[g].at]) < MaxLogLen
                /\ logs' = [logs EXCEPT ![replicas[g].at] =
                               ClusterAppend(@, replicas[g].record)]
                /\ replicas' = [replicas EXCEPT ![g].pc = "select",
                                                 ![g].record = 0]
           ELSE /\ replicas' = [replicas EXCEPT ![g].pc = "returned",
                                                 ![g].record = 0]
                /\ UNCHANGED logs
    /\ UNCHANGED peers
    /\ UNCHANGED <<logVars, indexVars, serverVars, storeVars, membershipVars,
                   agentVars, replicatorVars>>

NextCluster ==
    \/ \E n \in ClusterNodes, value \in 1..MaxClientRecords :
           ClientProduce(n, value)
    \/ \E n \in ClusterNodes, name \in ClusterNodes : ClusterJoin(n, name)
    \/ \E n \in ClusterNodes, name \in ClusterNodes : ClusterLeave(n, name)
    \/ \E g \in 1..MaxReplicas : replicaLeave(g)
    \/ \E g \in 1..MaxReplicas : replicaRecord(g)
    \/ \E g \in 1..MaxReplicas, ok \in BOOLEAN : replicaProduce(g, ok)

SpecCluster == InitCluster /\ [][NextCluster]_vars

(* --------------------------- properties -------------------------------- *)

\* What Log.Read(offset) returns in the current state.
ReadNow(offset) == LogRead(segments, dir, offset)
\* What Log.Read(offset) returns in the next state.
ReadNext(offset) == LogRead(segments', dir', offset)

BaseOffsets(segs) == [k \in 1..Len(segs) |-> segs[k].baseOffset]
NextOffsets(segs) == [k \in 1..Len(segs) |-> segs[k].nextOffset]

\* The record a read of the i-th successful append has to return.
Appended(i) == <<[Value |-> history[i].value, Offset |-> history[i].offset]>>

\* C1: on a log opened on an empty directory with InitialOffset = 0, the
\* offsets returned by the successful Append calls are 0, 1, ..., n-1 in call
\* order, whatever the payloads, the caps and the roll-overs.
C1_DenseOffsets ==
    config.InitialOffset = 0 =>
        /\ \A i \in 1..Len(history) : history[i].offset = i - 1
        /\ (ret.op = "Append" /\ ret.err = "nil") => ret.off = Len(history) - 1

C1_Witness ==
    /\ config.InitialOffset = 0
    /\ ret.op = "Append" /\ ret.err = "nil" /\ ret.off = 1
    /\ Len(segments) >= 3

\* C2: every appended record whose segment has not been truncated reads
\* back, at its returned offset, with the payload that was appended and with
\* the offset field equal to the returned offset.
C2_ReadBack ==
    logState = "open" =>
        /\ \A i \in 1..Len(history) :
               history[i].offset >= LowestOffset(segments) =>
                   /\ ReadNow(history[i].offset).err = "nil"
                   /\ ReadNow(history[i].offset).record = Appended(i)
        /\ (ret.op = "Read" /\ ret.err = "nil") =>
               \E i \in 1..Len(history) :
                   history[i].offset = ret.arg /\ ret.record = Appended(i)

C2_Witness ==
    /\ ret.op = "Read" /\ ret.err = "nil"
    /\ ret.record = <<[Value |-> <<7>>, Offset |-> ret.arg]>>
    /\ Len(segments) >= 3
    /\ ret.arg < segments[Len(segments)].baseOffset
    /\ reopens = 1

\* Some segment covers offset o.
Covered(segs, o) ==
    \E k \in 1..Len(segs) : segs[k].baseOffset <= o /\ o < segs[k].nextOffset

\* The parts of C3 that do not mention the next append: a NewLog on the
\* directory of a cleanly closed log finds the same lowest and highest
\* offsets, the same base offsets and next offsets, and for every read the
\* result it had before the Close: the appended record for an offset that a
\* segment covers, offset-out-of-range for any other.
ReopenKeeps ==
    /\ LowestOffset(segments') = LowestOffset(segments)
    /\ HighestOffset(segments') = HighestOffset(segments)
    /\ BaseOffsets(segments') = BaseOffsets(segments)
    /\ NextOffsets(segments') = NextOffsets(segments)
    /\ activeSegment' = Len(segments')
    /\ \A o \in Offsets :
           IF Covered(segments, o)
               THEN /\ ReadNext(o).err = "nil"
                    /\ \E i \in 1..Len(history) :
                           /\ history[i].offset = o
                           /\ ReadNext(o).record = Appended(i)
           ELSE ReadNext(o).err = "ErrOffsetOutOfRange"

\* The offset of a successful next append in the next state (-1: it fails).
NextAppendOffset ==
    LET Returned(a) == IF a.err = "nil" THEN a.off ELSE -1
    IN  Returned(LogAppend(segments', activeSegment', dir', config,
                           [Value |-> <<>>, Offset |-> 0]))

\* C3 as claimed: after a clean Close and a NewLog on the same directory the
\* log is as before and the next append returns the previous
\* highestOffset + 1.
C3_Original ==
    [][(logState = "closed" /\ logState' = "open") =>
          /\ ReopenKeeps
          /\ NextAppendOffset # -1 =>
                 NextAppendOffset = HighestOffset(segments) + 1]_vars

\* C3, amended: after a clean Close and a NewLog on the same directory the
\* log is as before, every segment's nextOffset is recovered exactly, and the
\* next append returns the previous nextOffset of the active segment.
C3_Reopen ==
    [][(logState = "closed" /\ logState' = "open") =>
          /\ ReopenKeeps
          /\ NextAppendOffset # -1 =>
                 NextAppendOffset = segments[Len(segments)].nextOffset]_vars

C3_Witness ==
    /\ ret.op = "NewLog" /\ reopens = 1
    /\ Len(segments) >= 2
    /\ LowestOffset(segments) > config.InitialOffset
    /\ HighestOffset(segments) >= LowestOffset(segments)
    /\ LogRead(segments, dir, LowestOffset(segments)).err = "nil"

\* C4 as claimed: HighestOffset is the offset of the most recent successful
\* append, and 0 on a log that holds no record, for every InitialOffset;
\* LowestOffset is the base offset of the first segment.
C4_Offsets ==
    logState = "open" =>
        /\ HighestOffset(segments) =
               IF history = <<>> THEN 0 ELSE history[Len(history)].offset
        /\ LowestOffset(segments) = segments[1].baseOffset
        /\ ret.op = "HighestOffset" =>
               ret.off = IF history = <<>> THEN 0
                         ELSE history[Len(history)].offset

\* C5 as claimed: Read succeeds for every offset from lowestOffset() to
\* highestOffset(), also on a log that holds no record yet.
C5_Original ==
    logState = "open" =>
        \A o \in LowestOffset(segments) .. HighestOffset(segments) :
            ReadNow(o).err = "nil"

\* C5, amended: Read succeeds for every offset from lowestOffset() to
\* highestOffset() unless the next offset of the log is 0 (InitialOffset = 0
\* and nothing appended yet).
C5_ReadableRange ==
    (logState = "open" /\ segments[Len(segments)].nextOffset > 0) =>
        \A o \in LowestOffset(segments) .. HighestOffset(segments) :
            ReadNow(o).err = "nil"

C5_Witness ==
    /\ logState = "open"
    /\ ret.op = "Append" /\ ret.err = "nil"
    /\ Len(segments) >= 2
    /\ segments[Len(segments)].nextOffset = segments[Len(segments)].baseOffset
    /\ HighestOffset(segments) > LowestOffset(segments)

\* C6: Read(o) returns the offset-out-of-range error, carrying o and no
\* record, exactly when no segment has baseOffset <= o < nextOffset, and then
\* it changes nothing.
C6_OutOfRange ==
    [][ret'.op = "Read" =>
          /\ ret'.err = "ErrOffsetOutOfRange" <=> ~Covered(segments, ret'.arg)
          /\ ~Covered(segments, ret'.arg) =>
                 /\ ret'.errOffset = ret'.arg
                 /\ ret'.record = <<>>
                 /\ UNCHANGED <<config, dir, segments, activeSegment,
                                logState, history>>]_vars

C6_Witness ==
    /\ ret.op = "Read" /\ ret.err = "ErrOffsetOutOfRange"
    /\ ret.errOffset = ret.arg
    /\ ret.arg < LowestOffset(segments)
    /\ ret.arg >= config.InitialOffset

\* The segments of segs with nextOffset > lowest, in order.
RECURSIVE Retained(_, _)
Retained(segs, lowest) ==
    IF segs = <<>> THEN <<>>
    ELSE IF Head(segs).nextOffset > lowest
        THEN <<Head(segs)>> \o Retained(Tail(segs), lowest)
    ELSE Retained(Tail(segs), lowest)

\* C7: a Truncate(L) that returns has removed exactly the segments with
\* nextOffset <= L, whose offsets and files are gone; the other segments are
\* kept in order, every offset >= L that was readable reads the same record,
\* and lowestOffset() is the base offset of the first retained segment.
C7_Truncate ==
    [][(ret'.op = "Truncate" /\ ret'.err = "nil") =>
          /\ segments' = Retained(segments, ret'.arg)
          /\ \A k \in 1..Len(segments) :
                 segments[k].nextOffset <= ret'.arg =>
                     /\ StoreName(segments[k].baseOffset) \notin DOMAIN dir'
                     /\ IndexName(segments[k].baseOffset) \notin DOMAIN dir'
                     /\ \A o \in segments[k].baseOffset ..
                                 segments[k].nextOffset - 1 :
                            ReadNext(o).err = "ErrOffsetOutOfRange"
          /\ \A o \in Offsets :
                 (o >= ret'.arg /\ ReadNow(o).err = "nil") =>
                     /\ ReadNext(o).err = "nil"
                     /\ ReadNext(o).record = ReadNow(o).record
          /\ LowestOffset(segments') =
                 Head(Retained(segments, ret'.arg)).baseOffset]_vars

C7_Witness ==
    /\ ret.op = "Truncate" /\ ret.err = "nil"
    /\ Len(segments) >= 2
    /\ LowestOffset(segments) > config.InitialOffset
    /\ ret.arg >= LowestOffset(segments)
    /\ HighestOffset(segments) >= ret.arg
    /\ LogRead(segments, dir, ret.arg).err = "nil"

\* C8 as claimed: the segment list is never empty, the active segment is the
\* last one, which has the highest baseOffset, and Truncate never aborts the
\* process.
C8_ActiveSegment ==
    /\ logState # "panicked"
    /\ Len(segments) > 0
    /\ activeSegment = Len(segments)
    /\ \A k \in 1..Len(segments) :
           segments[k].baseOffset <= segments[activeSegment].baseOffset

\* C9: the segments are sorted by baseOffset and contiguous: each segment
\* starts at the nextOffset of the segment before it.
C9_Contiguous ==
    \A k \in 1..(Len(segments) - 1) :
        /\ segments[k].baseOffset <= segments[k + 1].baseOffset
        /\ segments[k + 1].baseOffset = segments[k].nextOffset

C9_Witness ==
    /\ logState = "open" /\ reopens = 1
    /\ Len(segments) >= 2
    /\ LowestOffset(segments) > config.InitialOffset
    /\ segments[2].baseOffset = segments[1].nextOffset
    /\ segments[1].nextOffset > segments[1].baseOffset

\* C10: after a successful Append that returned o, the segment that received
\* the record is within both caps, or a fresh empty segment with
\* baseOffset = o + 1 is the new active segment; a new segment is only
\* created when the previous one has reached a cap.
C10_RollAfterFill ==
    [][(ret'.op = "Append" /\ ret'.err = "nil") =>
          LET s    == segments'[activeSegment]
              last == segments'[Len(segments')]
              roll == /\ Len(segments') = Len(segments) + 1
                      /\ activeSegment' = Len(segments')
                      /\ last.baseOffset = ret'.off + 1
                      /\ last.nextOffset = ret'.off + 1
                      /\ last.store.size = 0
                      /\ last.index.size = 0
          IN  /\ s.baseOffset <= ret'.off /\ ret'.off < s.nextOffset
              /\ \/ /\ s.store.size <= config.MaxStoreBytes
                    /\ s.index.size <= config.MaxIndexBytes
                 \/ roll
              /\ Len(segments') # Len(segments) =>
                     /\ roll
                     /\ \/ s.store.size >= config.MaxStoreBytes
                        \/ s.index.size >= config.MaxIndexBytes]_vars

C10_Witness ==
    /\ ret.op = "Append" /\ ret.err = "nil"
    /\ Len(segments) >= 2
    /\ activeSegment = Len(segments)
    /\ segments[Len(segments)].baseOffset = ret.off + 1
    /\ segments[Len(segments)].store.size = 0
    /\ segments[Len(segments) - 1].store.size > config.MaxStoreBytes
    /\ segments[Len(segments) - 1].index.size < config.MaxIndexBytes

\* C11 as claimed: for every configuration, also with a MaxIndexBytes that
\* is no multiple of entWidth, Log.Append never returns the end-of-space
\* error of index.Write.
C11_NoIndexEOF == ret.op = "Append" => ret.err # "EOF"

\* A record as the store holds it: its length in lenWidth bytes, then the
\* serialized record.
Frame(record) == PutBE(Len(Marshal(record)), lenWidth) \o Marshal(record)

\* The frames of the records that Log.Read returns for the offsets o .. hi,
\* in offset order.
RECURSIVE ReadableStream(_, _)
ReadableStream(o, hi) ==
    LET One(r) == IF r.err = "nil" THEN Frame(r.record[1]) ELSE <<>>
    IN  IF o > hi THEN <<>>
        ELSE One(ReadNow(o)) \o ReadableStream(o + 1, hi)

\* C12 as claimed: on an open log at rest, whatever appends succeeded or
\* failed before, Log.Reader read to EOF yields exactly the frames of the
\* records readable through Log.Read, from the lowest offset to the highest,
\* each once and nothing else.
C12_Reader ==
    (ret.op = "Reader" /\ logState = "open" /\ pc = Idle) =>
        /\ ret.err = "nil"
        /\ ret.record = ReadableStream(LowestOffset(segments),
                                       HighestOffset(segments))

\* C13 as claimed: a Reset on an open log, run on its own, succeeds and
\* leaves the log as NewLog leaves it on an empty directory: one empty
\* segment at InitialOffset, which is active, no appended offset readable,
\* and the next append returns InitialOffset.
C13_Reset ==
    [][(pc.next = "setup" /\ pc.alone /\ pc'.next = "idle") =>
          /\ ret'.err = "nil"
          /\ Len(segments') = 1
          /\ activeSegment' = 1
          /\ segments'[1].baseOffset = config.InitialOffset
          /\ segments'[1].nextOffset = config.InitialOffset
          /\ segments'[1].store.size = 0
          /\ segments'[1].index.size = 0
          /\ \A i \in 1..Len(history) :
                 ReadNext(history[i].offset).err = "ErrOffsetOutOfRange"
          /\ NextAppendOffset = config.InitialOffset]_vars

\* C14 as claimed: once Close has returned, every Append and every Read
\* returns an error, and neither changes the files of the log.
C14_ClosedFails ==
    [][(logState = "closed" /\ pc'.next = pc.next
        /\ ret'.op \in {"Append", "Read"}) =>
          /\ ret'.err # "nil"
          /\ ~Crashed(ret'.err)
          /\ dir' = dir]_vars

\* The directory d without the files whose stem is no unsigned integer.
Clean(d) == [n \in {m \in DOMAIN d : m[1] >= 0} |-> d[n]]

\* C15 as claimed: NewLog ignores the entries whose stem is no unsigned
\* integer. On a directory that holds nothing else it creates one segment at
\* InitialOffset; on a directory with segment files it builds the segment
\* list it builds without the other entries.
C15_ForeignIgnored ==
    /\ (ret.op = "NewLog" /\ reopens = 0) =>
           BaseOffsets(segments) = <<config.InitialOffset>>
    /\ [][(logState = "closed" /\ ret'.op = "NewLog"
           /\ reopens' = reopens + 1) =>
             BaseOffsets(segments') =
                 BaseOffsets(setup(<<>>, 0, Clean(dir), config).segments)]_vars

\* The handler calls the events evs ask for: for every join and every
\* leave event, in order, one call for each listed member that is not the
\* local one.
RECURSIVE ExpectedCalls(_)
ExpectedCalls(evs) ==
    LET Others(e) == SelectSeq(e.members, LAMBDA m : m.Name # LocalName)
        Calls(e) ==
            IF e.type = "member-join"
                THEN [k \in 1..Len(Others(e)) |->
                         [op |-> "Join", name |-> Others(e)[k].Name,
                          addr |-> Others(e)[k].Tags.rpc_addr]]
            ELSE IF e.type = "member-leave"
                THEN [k \in 1..Len(Others(e)) |->
                         [op |-> "Leave", name |-> Others(e)[k].Name]]
            ELSE <<>>
    IN  IF evs = <<>> THEN <<>>
        ELSE ExpectedCalls(SubSeq(evs, 1, Len(evs) - 1)) \o Calls(evs[Len(evs)])

\* C17 as claimed: the handler is never called for the local member, and
\* once eventHandler has nothing left that it will take from the channel,
\* the calls it made are one Join for every other member of every join
\* event and one Leave for every other member of every leave event.
C17_HandlerNotified ==
    /\ \A i \in 1..Len(handlerCalls) : handlerCalls[i].name # LocalName
    /\ (delivered = Len(events) \/ handlerPc = "returned") =>
           handlerCalls = ExpectedCalls(events)

\* C18: however many goroutines call Shutdown, one after the other or at
\* the same time, the steps executed are a prefix of the four steps in their
\* order, so each runs at most once; the shutdowns channel is never closed
\* twice, and it has been closed once as soon as any call is past the test
\* of the flag.
C18_ShutdownOnce ==
    /\ Len(stepsRun) <= Len(ShutdownSteps)
    /\ stepsRun = SubSeq(ShutdownSteps, 1, Len(stepsRun))
    /\ shutdowns <= 1
    /\ shutdown <=> shutdowns = 1
    /\ \A c \in 1..Len(callers) :
           callers[c].pc \in {"steps", "returned"} => shutdowns = 1

\* Three calls of Shutdown were made, the one that got the lock first ran
\* all four steps, and all three have returned without an error.
C18_Witness ==
    /\ Len(callers) = 3
    /\ \A c \in 1..3 : callers[c].pc = "returned" /\ callers[c].err = "nil"
    /\ stepsRun = ShutdownSteps
    /\ shutdowns = 1

\* C19: no channel is ever closed twice; once the replicator is closed no
\* step adds a server or starts a goroutine, so a Join starts no
\* replication; a Close of a closed replicator changes nothing; and every
\* replicate() goroutine that exists when the replicator is closed returns
\* in the end.
C19_Close ==
    /\ [](\A c \in 1..Len(closes) : closes[c] <= 1)
    /\ [][closed => /\ closed'
                    /\ DOMAIN servers' \subseteq DOMAIN servers
                    /\ Len(goroutines') = Len(goroutines)]_vars
    /\ [][(closed /\ ReplicatorClose) =>
              UNCHANGED <<servers, closed, closes, goroutines, produced>>]_vars
    /\ \A g \in 1..MaxJoins :
           (closed /\ g <= Len(goroutines))
               ~> (g <= Len(goroutines) /\ goroutines[g].pc = "returned")

\* The replicator was closed while a goroutine sat in its select, that
\* goroutine returned through the r.close case, and a Join that came after
\* the Close for a server not replicated started nothing.
C19_Witness ==
    /\ closed
    /\ closes[1] = 1
    /\ \E g \in 1..Len(goroutines) :
           goroutines[g].pc = "returned" /\ goroutines[g].how = "close"
    /\ replRet.op = "Join" /\ ~replRet.started
    /\ servers = << >>

\* C20 as claimed: a Leave for a replicated server takes the name out of the
\* server set and closes its channel, and no record that the goroutine of
\* that server takes from the stream after the Leave has returned is
\* produced to the local server.
C20_LeaveStops ==
    /\ \A g \in 1..Len(goroutines) :
           closes[goroutines[g].leave] > 0 =>
               \/ goroutines[g].name \notin DOMAIN servers
               \/ servers[goroutines[g].name] # goroutines[g].leave
    /\ \A i \in 1..Len(produced) : ~produced[i].late

\* The distinct base offsets of the file names of a directory, ascending.
RECURSIVE Ascending(_)
Ascending(S) ==
    IF S = {} THEN <<>>
    ELSE LET least == CHOOSE x \in S : \A y \in S : x <= y
         IN  <<least>> \o Ascending(S \ {least})

DistinctBaseOffsets(d) == Ascending({ParseUint(n[1]) : n \in DOMAIN d})

\* C21 as claimed: a NewLog that succeeds on a directory that holds files
\* builds one segment for each distinct base offset among the file names,
\* in ascending order, whether both files of the base offset are there or
\* only one of them.
C21_OnePerBaseOffset ==
    [][(logState = "closed" /\ ret'.op = "NewLog" /\ reopens' = reopens + 1
        /\ ret'.err = "nil" /\ DOMAIN dir # {})
           => BaseOffsets(segments') = DistinctBaseOffsets(dir)]_vars

\* The bytes of the store of segment s: the file and, after it, what is
\* still in the write buffer.
StoreBytes(s) == dir[s.store.name] \o s.store.buf

\* The record framed at position pos of the bytes b.
RecordAt(b, pos) ==
    Unmarshal(SubSeq(b, pos + lenWidth + 1,
                     pos + lenWidth + BE(SubSeq(b, pos + 1, pos + lenWidth))))

\* Index entry k of segment s: its relative offset and its position.
EntryOff(s, k) ==
    BE(SubSeq(s.index.mmap, k * entWidth + 1, k * entWidth + offWidth))
EntryPos(s, k) ==
    BE(SubSeq(s.index.mmap, k * entWidth + offWidth + 1, (k + 1) * entWidth))

\* C22: in every state of a log that has not crashed, after successful and
\* failed appends, truncations and close and reopen, every segment has
\* baseOffset <= nextOffset, as many index entries as nextOffset -
\* baseOffset, and entry k holds k and the store position of the record
\* whose offset is baseOffset + k.
C22_SegmentInvariant ==
    logState # "panicked" =>
        \A j \in 1..Len(segments) :
            /\ segments[j].baseOffset <= segments[j].nextOffset
            /\ segments[j].index.size =
                   (segments[j].nextOffset - segments[j].baseOffset) * entWidth
            /\ \A k \in 0..(segments[j].nextOffset - segments[j].baseOffset - 1) :
                   /\ EntryOff(segments[j], k) = k
                   /\ EntryPos(segments[j], k) + lenWidth
                          <= Len(StoreBytes(segments[j]))
                   /\ RecordAt(StoreBytes(segments[j]),
                               EntryPos(segments[j], k)).err = "nil"
                   /\ RecordAt(StoreBytes(segments[j]),
                               EntryPos(segments[j], k)).record.Offset
                          = segments[j].baseOffset + k

\* An append has failed on a log that was closed and opened again, and a
\* segment of that log holds a record at a base offset that is not 0.
C22_Witness ==
    /\ logState = "open"
    /\ reopens = 1
    /\ ret.op = "Append" /\ ret.err = "EOF"
    /\ \E j \in 1..Len(segments) :
           /\ segments[j].baseOffset > 0
           /\ segments[j].nextOffset > segments[j].baseOffset

\* C23 as claimed: a NewLog on the directory of a cleanly closed log, with
\* whatever MaxIndexBytes, does not crash, keeps every byte of every index
\* file, and builds segments whose index has a size within its mapping and
\* reads every entry the file had.
C23_GrowOnly ==
    [][(logState = "closed" /\ ret'.op = "NewLog" /\ reopens' = reopens + 1) =>
          /\ ~Crashed(ret'.err)
          /\ \A n \in DOMAIN dir :
                 n[2] = "index" =>
                     /\ n \in DOMAIN dir'
                     /\ Len(dir'[n]) >= Len(dir[n])
                     /\ SubSeq(dir'[n], 1, Len(dir[n])) = dir[n]
          /\ \A j \in 1..Len(segments') :
                 /\ segments'[j].index.size <= Len(segments'[j].index.mmap)
                 /\ \A k \in 0..((segments'[j].index.size \div entWidth) - 1) :
                        indexRead(segments'[j].index, k).err = "nil"]_vars

\* C24 as claimed: when NewLog has returned an error of a system call, no
\* descriptor that the call opened is still open: none of the segment that
\* was under construction and none of the segments built before it.
C24_ReleasedOnError ==
    (ret.op = "NewLog" /\ ret.err \in Faults) =>
        /\ ret.record = <<>>
        /\ \A j \in 1..Len(segments) :
               /\ segments[j].store.file = "closed"
               /\ segments[j].index.file = "closed"

\* C25 as claimed, with k the number of successful Write calls so far:
\* Read(n) returns the n-th written pair for 0 <= n < k, Read(-1) the last
\* one, and fails with EOF when k = 0 or n >= k; Write fails with EOF
\* exactly when size + 12 exceeds the length of the mapping, and then
\* leaves the index as it was.
C25_IndexContract ==
    /\ idxRet.op = "Read" =>
           IF Len(idxWritten) = 0 THEN idxRet.err = "EOF"
           ELSE IF idxRet.hi = 0 /\ idxRet.lo = -1
               THEN /\ idxRet.err = "nil"
                    /\ <<idxRet.out, idxRet.pos>> = idxWritten[Len(idxWritten)]
           ELSE IF idxRet.hi = 0 /\ idxRet.lo < Len(idxWritten)
               THEN /\ idxRet.err = "nil"
                    /\ <<idxRet.out, idxRet.pos>> = idxWritten[idxRet.lo + 1]
           ELSE idxRet.err = "EOF"
    /\ idxRet.op = "Write" =>
           /\ idxRet.err \in {"nil", "EOF"}
           /\ idxRet.err = "EOF" <=>
                  idxRet.before.size + entWidth > Len(idxRet.before.mmap)
           /\ idxRet.err = "EOF" => idx = idxRet.before

\* C26: a ConsumeStream started at offset o has always sent the records
\* appended at o, o + 1, ... up to its position, one each and in this
\* order; it returns only when its context is done or on an error that is
\* not offset-out-of-range, so it waits at the end of the log; and while it
\* runs, a record that the log holds at the stream's position is sent in
\* the end.
C26_Stream ==
    /\ [](stream.pc # "none" =>
            /\ stream.offset = stream.start + Len(stream.sent)
            /\ \A i \in 1..Len(stream.sent) :
                   /\ stream.sent[i].Offset = stream.start + i - 1
                   /\ \E h \in 1..Len(history) :
                          /\ history[h].offset = stream.sent[i].Offset
                          /\ history[h].value = stream.sent[i].Value
            /\ stream.pc = "returned" =>
                   \/ stream.done /\ stream.err = "nil"
                   \/ stream.err \notin {"nil", "ErrOffsetOutOfRange"})
    /\ \A o \in 0..(MaxAppends + 2) :
           (/\ stream.pc \in {"select", "consume", "send"}
            /\ stream.offset = o
            /\ Covered(segments, o))
               ~> (stream.pc = "returned" \/ stream.offset > o)

\* The stream found the end of the log at an offset, kept running, and has
\* sent the record that was appended at that offset afterwards.
C26_Witness ==
    /\ stream.pc \in {"select", "consume", "send"}
    /\ stream.waitedAt >= stream.start
    /\ stream.offset > stream.waitedAt
    /\ Len(stream.sent) > 0

\* The replicate() goroutines of server name that have not returned.
Running(name) ==
    {g \in 1..Len(goroutines) :
         goroutines[g].name = name /\ goroutines[g].pc # "returned"}

\* C27 as claimed: whatever the order of the Join and Leave calls, no
\* server has two replicate() goroutines running at the same time, and a
\* Join for a name that is in the map starts nothing.
C27_OnePerServer ==
    /\ [](\A name \in ReplNames : Cardinality(Running(name)) <= 1)
    /\ [][\A name \in ReplNames :
              (name \in DOMAIN servers /\ ReplicatorJoin(name))
                  => goroutines' = goroutines /\ servers' = servers]_vars

\* C30 as claimed: between calls, a server name is in the servers map
\* exactly when a replicate() goroutine of that server is running.
C30_MapMatchesGoroutines ==
    \A name \in ReplNames : name \in DOMAIN servers <=> Running(name) # {}

\* A goroutine that is changing s.buf: writing to it, or flushing bytes out
\* of it.
Mutating(t) ==
    \/ threads[t].pc = "writing"
    \/ threads[t].pc = "flushing" /\ threads[t].bytes # <<>>

\* C28 as claimed: with appenders, store.Read callers and several
\* store.ReadAt callers on one store, a goroutine that writes to or flushes
\* the write buffer holds the store lock exclusively, no two goroutines
\* change the buffer at the same time, and every byte appended is in the
\* file or in the buffer exactly once.
C28_BufferExclusive ==
    /\ \A t \in 1..Len(threads) :
           Mutating(t) => storeMu.w = t /\ storeMu.r = {}
    /\ Cardinality({t \in 1..Len(threads) : Mutating(t)}) <= 1
    /\ Len(stDir[st.name]) + Len(st.buf) = st.size

\* C29 as claimed: a Log.Append that returns an error leaves the log as it
\* was before the call: the lowest and the highest offset, what Log.Read
\* returns for every offset, the store size of the active segment, and the
\* offset the next append is given.
C29_FailedAppendNoChange ==
    [][(calls' = calls + 1 /\ ret'.err # "nil" /\ ~Crashed(ret'.err)) =>
           /\ LowestOffset(segments') = LowestOffset(segments)
           /\ HighestOffset(segments') = HighestOffset(segments)
           /\ \A o \in Offsets :
                  /\ ReadNext(o).err = ReadNow(o).err
                  /\ ReadNext(o).record = ReadNow(o).record
           /\ segments'[activeSegment'].store.size
                  = segments[activeSegment].store.size
           /\ HighestOffsetNext(segments') = HighestOffsetNext(segments)]_vars

\* A call of Shutdown went through all four steps and the last one,
\* log.Close, returned nil.
AllStepsDone ==
    \E d \in 1..Len(callers) :
        /\ callers[d].pc = "returned"
        /\ callers[d].i = Len(ShutdownSteps)
        /\ callers[d].err = "nil"

\* C31 as claimed: when a call of Shutdown has returned nil, all four
\* shutdown steps have been carried out without an error: the gRPC server
\* was stopped and the log was closed, also when an earlier call ended with
\* the error of one of its steps.
C31_NilMeansShutDown ==
    \A c \in 1..Len(callers) :
        (callers[c].pc = "returned" /\ callers[c].err = "nil") =>
            /\ stepsRun = ShutdownSteps
            /\ AllStepsDone

\* C32 as claimed: whatever Join, Leave and Join again the replicators go
\* through, also with two servers that replicate from each other, no log
\* holds a record twice, so no log grows beyond the records the clients
\* produced.
C32_CopiedOnce ==
    \A n \in ClusterNodes :
        /\ \A i, j \in 1..Len(logs[n]) :
               i # j => logs[n][i].Value # logs[n][j].Value
        /\ Len(logs[n]) <= Cardinality(ClientValues)

\* C16 as claimed: Remove and Reset keep the lock from the closing of the
\* segments to the removal of the directory and the new setup, so that no
\* other call runs in between and none meets closed segments.
C16_WholeEffect == pc.alone

====
